---- MODULE Spec2Model ----
(***************************************************************************)
(* Resource/admission layer of the gateway: the proxy pool manager         *)
(* (services/proxy/manager.py, services/proxy/models.py), the hierarchical *)
(* rate limiter with admission control and the stale-while-revalidate      *)
(* response cache (services/api/middleware.py).                            *)
(*                                                                         *)
(* Every step of a call is one operation on the shared store followed by   *)
(* the local code up to the next store operation, so concurrent calls      *)
(* interleave exactly at the awaits of the source.                         *)
(***************************************************************************)
EXTENDS Integers, Sequences, FiniteSets, TLC

\* ---------------------------------------------------------------- bounds
NumProxies == 2
NumClients == 2
MaxCalls == 3
\* requirements['max_inflight'] as passed by the callers
MaxInflight == 1

Pids == 1..NumProxies
Clients == 1..NumClients

\* ------------------------------------------------------ program constants
MinHealthScore == 70
BurnFailurePct == 30
BurnMinRequests == 10

VARIABLES
    active,     \* snpd:proxies:active
    burned,     \* snpd:proxies:burned
    rec,        \* snpd:proxy:<id> hashes
    inflight,   \* snpd:proxy:<id>:inflight counters
    alerts,     \* burn alerts published on snpd:system_alerts, per proxy
    cl,         \* the running get_proxy / report_usage calls
    out,        \* proxies returned by get_proxy and not yet reported, per proxy
    raised,     \* some get_proxy call has ended in an exception
    ncalls,     \* get_proxy calls started so far
    rcfg,       \* the arguments EnhancedRateLimitMiddleware was built with
    bucket,     \* rl:* token buckets in the store
    granted,    \* requests allowed so far, per bucket
    rq,         \* the inbound requests in EnhancedRateLimitMiddleware
    sema,       \* free slots of self.sema
    conc,       \* the CONCURRENCY gauge
    now,        \* the clock, in seconds
    cdecode,    \* the store client decodes replies (decode_responses)
    centry,     \* the cache entry of the request shape: cache:<key> and its :meta
    cq,         \* the GET requests in EnhancedCacheMiddleware
    rf,         \* the background refresh tasks
    nrf,        \* refresh tasks created so far
    hcalls,     \* invocations of the downstream handler so far
    ccalls,     \* requests started so far
    hin,        \* the Proxy object health_score is read from
    hres,       \* what reading health_score gave
    hpc,        \* health_score has been read
    tbcap,      \* capacity of the one bucket of a burst
    tb,         \* that bucket in the store, tokens in 1/TicksPerToken
    tbnow,      \* the clock of the burst, in ticks
    tbphase,    \* "burst" from the full bucket, "after" the wait
    tbn,        \* requests of the phase that were allowed
    tbrej,      \* requests of the phase that were rejected
    tbwait,     \* ticks waited between the phases
    gs,         \* the get_or_set calls
    gkey,       \* the cached value of the key, as stored text
    glock,      \* lock:<key>: its token and when it expires
    gnow,       \* the clock of get_or_set, in sleeps of 0.2 s
    gloads,     \* invocations of loader so far
    gdecode,    \* the store client decodes replies
    gtyped,     \* loader returns values json can only stringify
    mboot,      \* how the startup of the application went
    mstack,     \* app.user_middleware, outermost first
    mq,         \* the inbound requests on their way through the stack
    mresp,      \* the response each request was sent
    mcache,     \* the cache entries, per request shape
    mtokens,    \* tokens left in the limiter's buckets
    mconc,      \* the CONCURRENCY gauge of the installed limiter
    sstore,     \* the snpd:proxy:<id> hashes get_proxy selects from
    sactive,    \* the ids in snpd:proxies:active
    sinflight,  \* the snpd:proxy:<id>:inflight counters
    swant,      \* the requirements of the call
    spc,        \* where the call is
    scands,     \* scored_proxies: the objects read, with their keys and scores
    spick,      \* the object the call settled on, with its key and score
    sexplored,  \* the pick was made by random.choices
    sretried,   \* the first pick was at capacity
    lp,         \* the three background tasks of the proxy manager
    xq,         \* the calls of ProxiedClient.request
    xinflight,  \* the in-flight counter of the proxy get_proxy hands out
    xhttpx,     \* the httpx package could be imported
    erec,       \* the hash of the proxy reports are about
    estart,     \* that hash before the first report
    ecl,        \* the calls of report_usage on that proxy
    tstore,     \* the proxy hashes the scheduler reads
    tactive,    \* the active set
    tnow,       \* the time, in steps of five minutes
    tlast,      \* when the last pass of the scheduler ended
    tpc,        \* where the scheduler is
    ttodo,      \* the ids its for loop has still to visit
    tmet,       \* the idle sticky-session proxies its pass has met
    tzparse,    \* datetime.fromisoformat of the build reads a trailing Z
    kcounter,   \* the Prometheus counter proxy_cost_total per provider
    ktracker,   \* self.cost_tracker
    khour,      \* the cost of the reports since the last tick
    kreports,   \* the reports since the last tick
    kdaily,     \* the daily total in the store
    kalerts,    \* the high-cost alerts published
    kticks,     \* the ticks of the cost monitor
    klast,      \* what the last tick found, alerted and added
    nrec,       \* the proxy hashes the health monitor reads
    nactive,    \* the active set
    nburned,    \* the burned set
    npc,        \* where the health monitor is
    ntodo,      \* the ids its for loop has still to visit
    npass,      \* what its last pass counted, burnt and asked for, and what it was to find
    npasses,    \* the passes that are over
    lhash,      \* the proxy hashes with what report_usage wrote
    lscore,     \* what the scoring loop of get_proxy made of each hash
    wset,       \* members of the sorted set rate_limit:<identifier>:<route>:<window>
    wexp,       \* when the key of the sorted set expires
    wnow,       \* time.time() of the sliding-window limiter
    wq          \* the requests in RateLimitMiddleware.dispatch

proxyVars == <<active, burned, rec, inflight, alerts, cl, out, raised, ncalls>>
rateVars == <<rcfg, bucket, granted, rq, sema, conc, now>>
cacheVars == <<cdecode, centry, cq, rf, nrf, hcalls, ccalls>>
healthVars == <<hin, hres, hpc>>
tbVars == <<tbcap, tb, tbnow, tbphase, tbn, tbrej, tbwait>>
gsVars == <<gs, gkey, glock, gnow, gloads, gdecode, gtyped>>
chainVars == <<mboot, mstack, mq, mresp, mcache, mtokens, mconc>>
selVars == <<sstore, sactive, sinflight, swant, spc, scands, spick, sexplored, sretried>>
loopVars == <<lp>>
clientVars == <<xq, xinflight, xhttpx>>
ewmaVars == <<erec, estart, ecl>>
rotVars == <<tstore, tactive, tnow, tlast, tpc, ttodo, tmet, tzparse>>
costVars == <<kcounter, ktracker, khour, kreports, kdaily, kalerts, kticks, klast>>
monVars == <<nrec, nactive, nburned, npc, ntodo, npass, npasses>>
latVars == <<lhash, lscore>>
winVars == <<wset, wexp, wnow, wq>>
vars == <<active, burned, rec, inflight, alerts, cl, out, raised, ncalls,
          rcfg, bucket, granted, rq, sema, conc, now,
          cdecode, centry, cq, rf, nrf, hcalls, ccalls,
          healthVars, tbVars, gsVars, chainVars, selVars, loopVars, clientVars, ewmaVars, rotVars, costVars, monVars, latVars, winVars>>
notProxyVars == <<rateVars, cacheVars, healthVars, tbVars, gsVars, chainVars, selVars, loopVars, clientVars, ewmaVars, rotVars, costVars, monVars, latVars, winVars>>
notRateVars == <<proxyVars, cacheVars, healthVars, tbVars, gsVars, chainVars, selVars, loopVars, clientVars, ewmaVars, rotVars, costVars, monVars, latVars, winVars>>
notCacheVars == <<proxyVars, rcfg, bucket, granted, rq, sema, conc, healthVars, tbVars, gsVars, chainVars, selVars, loopVars, clientVars, ewmaVars, rotVars, costVars, monVars, latVars, winVars>>
notHealthVars == <<proxyVars, rateVars, cacheVars, tbVars, gsVars, chainVars, selVars, loopVars, clientVars, ewmaVars, rotVars, costVars, monVars, latVars, winVars>>
notTbVars == <<proxyVars, rateVars, cacheVars, healthVars, gsVars, chainVars, selVars, loopVars, clientVars, ewmaVars, rotVars, costVars, monVars, latVars, winVars>>
notGsVars == <<proxyVars, rateVars, cacheVars, healthVars, tbVars, chainVars, selVars, loopVars, clientVars, ewmaVars, rotVars, costVars, monVars, latVars, winVars>>
notChainVars == <<proxyVars, rateVars, cacheVars, healthVars, tbVars, gsVars, selVars, loopVars, clientVars, ewmaVars, rotVars, costVars, monVars, latVars, winVars>>
notSelVars == <<proxyVars, rateVars, cacheVars, healthVars, tbVars, gsVars, chainVars, loopVars, clientVars, ewmaVars, rotVars, costVars, monVars, latVars, winVars>>
notLoopVars == <<proxyVars, rateVars, cacheVars, healthVars, tbVars, gsVars, chainVars, selVars, clientVars, ewmaVars, rotVars, costVars, monVars, latVars, winVars>>
notClientVars == <<proxyVars, rateVars, cacheVars, healthVars, tbVars, gsVars, chainVars, selVars, loopVars, ewmaVars, rotVars, costVars, monVars, latVars, winVars>>
notEwmaVars == <<proxyVars, rateVars, cacheVars, healthVars, tbVars, gsVars, chainVars, selVars, loopVars, clientVars, rotVars, costVars, monVars, latVars, winVars>>
notRotVars == <<proxyVars, rateVars, cacheVars, healthVars, tbVars, gsVars, chainVars, selVars, loopVars, clientVars, ewmaVars, costVars, monVars, latVars, winVars>>
notCostVars == <<proxyVars, rateVars, cacheVars, healthVars, tbVars, gsVars, chainVars, selVars, loopVars, clientVars, ewmaVars, rotVars, monVars, latVars, winVars>>
notMonVars == <<proxyVars, rateVars, cacheVars, healthVars, tbVars, gsVars, chainVars, selVars, loopVars, clientVars, ewmaVars, rotVars, costVars, latVars, winVars>>
notLatVars == <<proxyVars, rateVars, cacheVars, healthVars, tbVars, gsVars, chainVars, selVars, loopVars, clientVars, ewmaVars, rotVars, costVars, monVars, winVars>>
notWinVars == <<proxyVars, rateVars, cacheVars, healthVars, tbVars, gsVars, chainVars, selVars, loopVars, clientVars, ewmaVars, rotVars, costVars, monVars, latVars>>

Min(a, b) == IF a <= b THEN a ELSE b
Max(a, b) == IF a >= b THEN a ELSE b
SetMin(S) == CHOOSE x \in S : \A y \in S : x <= y

\* ------------------------------------------------------------ proxy records
\* A stored hash.  any: the key exists; core: the fields written by to_dict
\* (url, provider, proxy_type, ...) are present; ewma: the field
\* response_time_ewma_ms is present; lastUsed: "" or the "...Z" text written
\* by now_utc_iso; ttl: an expiry is set on the key.
NoRec == [any |-> FALSE, core |-> FALSE, requests |-> 0, failures |-> 0,
          success |-> 0, ewma |-> FALSE, lastUsed |-> "", ttl |-> FALSE]

\* _save_proxy: hset(key, mapping=proxy.to_dict()) of a proxy just built by a
\* provider.  hset overwrites the fields of the mapping and leaves every other
\* field, and the key's expiry, as they are.
SaveProxy(r) ==
    [r EXCEPT !.any = TRUE, !.core = TRUE, !.requests = 0, !.failures = 0,
              !.success = 0, !.lastUsed = ""]

\* Proxy.from_dict ends in cls(**data): it raises TypeError when the hash
\* carries a key that is no field of the dataclass (response_time_ewma_ms)
\* or lacks the required url/provider/proxy_type.
FromDictRaises(r) == r.ewma \/ ~r.core

\* Proxy.health_score subtracts the timezone-aware last_used parsed from
\* "...Z" from the naive datetime.now(), which raises TypeError; the line is
\* reached only when requests > 0.
HealthRaises(r) == r.requests > 0 /\ r.lastUsed = "z"

\* Proxy.health_score: 100 for a never used proxy, else success rate (60) +
\* response time (30, the rolling window is never filled) + recency (10 when
\* last_used is unset).
HealthScore(r) ==
    IF r.requests = 0 THEN 100
    ELSE Min(100, ((r.success * 60) \div r.requests) + 30 + 10)

\* ------------------------------------------- rate limiter: configuration
NumRequests == 3
NumRoutes == 2
NumIps == 1
MaxTime == 1

Requests == 1..NumRequests
Routes == 1..NumRoutes
Ips == 1..NumIps

\* the tiers in the order of the loop in __call__
Levels == <<"global", "route", "user", "ip">>

\* cost=1, the default of the constructor
Cost == 1

\* (capacity, rate) per tier and (max_concurrency, shed_threshold) as passed
\* to the constructor
RateConfigs ==
    { [cap |-> [global |-> 1, route |-> 2, user |-> 2, ip |-> 2], mc |-> 1, shed |-> 2],
      [cap |-> [global |-> 2, route |-> 1, user |-> 2, ip |-> 2], mc |-> 2, shed |-> 1],
      [cap |-> [global |-> 2, route |-> 2, user |-> 1, ip |-> 2], mc |-> 2, shed |-> 2],
      [cap |-> [global |-> 2, route |-> 2, user |-> 2, ip |-> 1], mc |-> 1, shed |-> 1] }

\* rate_<tier>, tokens per second
RateOf(level) == 1

\* the user whose credentials request r carries in its headers; 0 is a
\* request without credentials
Sender(r) == r \div 2

\* None
NoUser == 0

\* __call__: `user = None` is all the middleware ever learns of the sender
UserSeen(r) == NoUser

\* _keys: rl:g, rl:r:<route>, rl:u:<user or 'anon'>, rl:i:<ip>; user 0
\* stands for 'anon'
KeyOf(level, route, user, ip) ==
    CASE level = "global" -> <<"g", 0>>
      [] level = "route" -> <<"r", route>>
      [] level = "user" -> <<"u", user>>
      [] level = "ip" -> <<"i", ip>>

LevelOfKey(k) ==
    CASE k[1] = "g" -> "global"
      [] k[1] = "r" -> "route"
      [] k[1] = "u" -> "user"
      [] k[1] = "i" -> "ip"

BucketKeys == {<<"g", 0>>, <<"u", NoUser>>} \cup ({"r"} \X Routes) \cup ({"i"} \X Ips)

NewRequest == [pc |-> "new", route |-> 0, ip |-> 0, lvl |-> 0, nowms |-> 0,
               resp |-> "none", debited |-> {}, status |-> 0, hdr |-> {}]

\* the limiter before its first request: every bucket full
RateQuiet ==
    /\ rcfg = CHOOSE k \in RateConfigs : k.cap["global"] = 1
    /\ bucket = [k \in BucketKeys |-> [tokens |-> rcfg.cap[LevelOfKey(k)], ts |-> 0]]
    /\ granted = [k \in BucketKeys |-> 0]
    /\ rq = [r \in Requests |-> NewRequest]
    /\ sema = rcfg.mc
    /\ conc = 0
    /\ now = 0

\* ------------------------------------------- one bucket under a burst
MaxCap == 3
MaxBurst == 5
MaxWait == 7
\* the clock of the burst ticks TicksPerToken times in the time one token is
\* refilled (1/rate seconds); tokens are counted in 1/TicksPerToken
TicksPerToken == 2

\* a full bucket and no request yet
TbQuiet ==
    /\ tbcap = 1
    /\ tb = [tokens |-> TicksPerToken, ts |-> 0]
    /\ tbnow = 0
    /\ tbphase = "burst"
    /\ tbn = 0
    /\ tbrej = 0
    /\ tbwait = 0

\* ------------------------------------------ CacheStrategy: configuration
NumCallers == 3
\* lock_expiration, in sleeps of the polling loop
LockExpiration == 2
\* no call starts after this time
MaxGsTime == 2

Callers == 1..NumCallers

NoPayload == [id |-> 0, form |-> "none"]

NoLock == [owner |-> 0, exp |-> 0]

IdleCall == [pc |-> "idle", lost |-> FALSE, deadline |-> 0, wake |-> 0, polls |-> 0,
             ret |-> NoPayload, via |-> "none", lexp |-> 0, late |-> FALSE,
             wrote |-> FALSE]

\* an empty cache and no call yet
GsQuiet ==
    /\ gs = [g \in Callers |-> IdleCall]
    /\ gkey = NoPayload
    /\ glock = NoLock
    /\ gnow = 0
    /\ gloads = 0
    /\ gdecode = FALSE
    /\ gtyped = FALSE

\* ------------------------------------------- middleware chain: configuration
NumChainRequests == 3
NumShapes == 2
\* burst of the limiter's buckets and the shed threshold, scaled down
ChainCapacity == 2
ChainShed == 2

ChainRequests == 1..NumChainRequests
Shapes == 1..NumShapes
Methods == {"GET", "POST"}

\* the layers main.py installs while the module is imported; on the normal
\* path each of them calls the next layer and hands its response back
PassThrough == {"CORS", "Security", "ErrorHandling", "RequestLogging"}

\* app.add_middleware(cls): the class is inserted at the front of
\* app.user_middleware, and the front of that list is the outermost layer
AddMiddleware(stack, m) == <<m>> \o stack

BaseStack ==
    AddMiddleware(AddMiddleware(AddMiddleware(AddMiddleware(<<>>,
        "CORS"), "Security"), "ErrorHandling"), "RequestLogging")

\* The application is built with lifespan=lifespan and registers
\* _rate_cache_startup with on_event("startup"). The repository pins no
\* framework version: the handler may run and install both layers, may not be
\* run at all beside a lifespan, or may fail in add_middleware because the
\* application has already started.
BootOutcomes == {"installed", "skipped", "failed"}

\* __call__ of the cache: `user = None` is all it ever learns of the sender
CacheUserSeen(r) == NoUser

\* _key: the HMAC-SHA256 of route, "|u=" user-or-anon, "|q=" query under the
\* secret. A shape stands for one route and query string; the digest is
\* taken to differ whenever the fields that went into it differ.
CacheKeyOf(shape, user) == <<shape, user>>

\* the keys __call__ can compute
ChainKeys == {CacheKeyOf(k, NoUser) : k \in Shapes}

NoChainResponse ==
    [src |-> "none", body |-> "none", admitted |-> FALSE, debited |-> FALSE, owner |-> 0]

NoChainEntry == [state |-> "none", body |-> "none", owner |-> 0]

NewChainRequest ==
    [pc |-> "new", at |-> 0, method |-> "GET", shape |-> 1, admitted |-> FALSE,
     debited |-> FALSE, held |-> FALSE, fill |-> "none"]

\* the module has been imported and the application has not started
ChainQuiet ==
    /\ mboot = "init"
    /\ mstack = BaseStack
    /\ mq = [r \in ChainRequests |-> NewChainRequest]
    /\ mresp = [r \in ChainRequests |-> NoChainResponse]
    /\ mcache = [k \in ChainKeys |-> NoChainEntry]
    /\ mtokens = ChainCapacity
    /\ mconc = 0

\* ------------------------------------------- get_proxy: what it selects from
NumSlots == 2
Slots == 1..NumSlots

\* None, as opposed to the empty string
None == "None"

\* the Proxy objects a provider (or a test) builds for slot i
BuiltProxies(i) ==
    { [url |-> "lum", provider |-> "bright_data", ptype |-> "isp", location |-> "us",
       username |-> "bd-" \o ToString(i), sticky |-> "s-" \o ToString(i),
       requests |-> 0, success |-> 0, lastUsed |-> None],
      [url |-> "oxy", provider |-> "oxylabs", ptype |-> "residential", location |-> "us",
       username |-> "ox-" \o ToString(i), sticky |-> None,
       requests |-> 0, success |-> 0, lastUsed |-> None] }
    \cup { [url |-> "http-" \o ToString(i), provider |-> "test_provider",
             ptype |-> "residential", location |-> l, username |-> None,
             sticky |-> None, requests |-> 0, success |-> 0, lastUsed |-> None]
           : l \in {"us", "eu", None} }

\* (requests, success) of a stored record
Usages == {<<0, 0>>, <<10, 7>>, <<10, 3>>}

\* what a call can ask for; min_health_score is left at the default
Requirements == [type : {"any", "isp", "residential"}, location : {"any", "us", "eu"}]

\* x or y
OrElse(x, y) == IF x = None \/ x = "" THEN y ELSE x

\* proxy_id(p): provider, type, sticky session or "none", and the first ten
\* hex digits of sha256(username or url), taken to differ for different texts
ProxyIdOf(o) == <<o.provider, o.ptype, OrElse(o.sticky, "none"), OrElse(o.username, o.url)>>

Blank(x) == IF x = None THEN "" ELSE x

\* Proxy.to_dict: asdict, last_used as text, every None as ''
ToDict(o) ==
    [o EXCEPT !.location = Blank(@), !.username = Blank(@), !.sticky = Blank(@),
              !.lastUsed = Blank(@)]

\* Proxy.from_dict: an empty last_used becomes None, the counters int(), all
\* other fields as they were stored
FromDict(d) == [d EXCEPT !.lastUsed = IF @ = "" THEN None ELSE @]

NoPick == [key |-> <<>>, obj |-> <<>>, score |-> 0]

\* no call yet on an empty store
SelQuiet ==
    /\ sstore = <<>>
    /\ sactive = {}
    /\ sinflight = <<>>
    /\ swant = [type |-> "any", location |-> "any"]
    /\ spc = "idle"
    /\ scands = {}
    /\ spick = NoPick
    /\ sexplored = FALSE
    /\ sretried = FALSE


\* ------------------------------------------------ the background loops
MaxTicks == 3

\* _health_monitor, _cost_monitor, _rotation_scheduler
LoopNames == {"health", "cost", "rotation"}

\* the awaited calls of one pass through the body after the sleep: the
\* read of the set or total, the work on it, the write of the result
BodySteps == 3

\* what the calls of a body can raise: TypeError from Proxy.from_dict or
\* health_score, ValueError from float(), the store client's errors
BodyErrors == {"TypeError", "ValueError", "ConnectionError", "TimeoutError"}

\* the task is cancelled while it waits
Cancelled == "CancelledError"

NewLoop == [pc |-> "sleep", step |-> 0, ticks |-> 0, failures |-> 0, logged |-> 0,
            ended |-> "no"]

\* the tasks as start() creates them
LoopQuiet == lp = [l \in LoopNames |-> NewLoop]


\* ------------------------------------------------ ProxiedClient.request
NumCalls == 3
Calls == 1..NumCalls

\* how the HTTP call through the proxy can go: a response, a response whose
\* raise_for_status raises, a network exception, a timeout
Outcomes == {"ok", "status", "network", "timeout"}

\* str(e) of the exception of an outcome
ErrorText(o) == "error: " \o o

NewCall == [pc |-> "idle", got |-> FALSE, success |-> FALSE, error |-> None,
            outcome |-> "none", reports |-> 0, rsuccess |-> FALSE, rerror |-> None,
            exit |-> "none"]

\* no request yet
ClientQuiet ==
    /\ xq = [r \in Calls |-> NewCall]
    /\ xinflight = 0
    /\ xhttpx = TRUE


\* ------------------------------------------------ report_usage: the record
NumReporters == 3
Reporters == 1..NumReporters

\* response times in milliseconds
Samples == {125, 250}

\* SETTINGS.ewma_alpha = 0.2 = AlphaNum / AlphaDen
AlphaNum == 1
AlphaDen == 5

\* alpha * response_time + (1 - alpha) * ewma
Ewma(old, sample) == (AlphaNum * sample + (AlphaDen - AlphaNum) * old) \div AlphaDen

\* the hash of a proxy: its counters and response_time_ewma_ms, <<>> while
\* the field is absent
FreshRecord == [requests |-> 0, success |-> 0, failures |-> 0, ewma |-> <<>>]
UsedRecord == [requests |-> 10, success |-> 7, failures |-> 3, ewma |-> <<250>>]

NewReport == [pc |-> "idle", sample |-> 0, succ |-> FALSE, cur |-> <<>>]

\* no report under way
EwmaQuiet ==
    /\ erec = FreshRecord
    /\ estart = FreshRecord
    /\ ecl = [c \in Reporters |-> NewReport]


\* ------------------------------------------------ rotation scheduler
\* time in steps of five minutes
MaxRotTime == 4

\* reports per proxy
MaxReports == 1
RotTimes == 0..MaxRotTime

\* asyncio.sleep(600)
RotationPeriod == 2

\* age_minutes > 15
StickyTtl == 3

\* the providers _init_providers has configured
Providers == {"bright_data", "oxylabs"}

\* the random part of a new session
Tails == {"a", "b"}

\* f"session_{int(time.time())}_{random.randint(1000, 9999)}"
NewSession(t, tail) == "session-" \o ToString(t) \o "-" \o tail

\* rotate_ip of the provider of o: Bright Data sets a new session id and a
\* username made of it, Oxylabs replaces the last part of the username
RotateIp(o, sess) ==
    IF o.provider = "bright_data"
    THEN [o EXCEPT !.sticky = sess, !.username = "bd-" \o sess]
    ELSE IF o.username # None /\ o.username # ""
    THEN [o EXCEPT !.username = "ox-" \o sess]
    ELSE o

\* never used
Never == 0 - 1

\* no pass yet over an empty store
RotQuiet ==
    /\ tstore = <<>>
    /\ tactive = {}
    /\ tnow = 0
    /\ tlast = 0
    /\ tpc = "sleep"
    /\ ttodo = {}
    /\ tmet = {}
    /\ tzparse = TRUE


\* ------------------------------------------------ cost monitor
\* money in thousandths of a dollar, bandwidth in GB (1024 MB)
MaxGb == 2
MaxCostReports == 2
MaxCostTicks == 2

\* the type of the proxies a provider builds
TypeOf(provider) == IF provider = "bright_data" THEN "isp" ELSE "residential"

\* cost_per_gb of _calculate_cost, 1.0 for a type it does not list
CostPerGb(ptype) ==
    CASE ptype = "residential" -> 15000
      [] ptype = "isp" -> 3000
      [] ptype = "datacenter" -> 500
      [] OTHER -> 1000

\* $0.001 per request for residential
PerRequest == 1

\* _calculate_cost(proxy, bandwidth_mb)
CalculateCost(ptype, gb) ==
    CostPerGb(ptype) * gb + (IF ptype = "residential" THEN PerRequest ELSE 0)

\* total_cost > 5.0
AlertThreshold == 5000

NoTick == [hour |-> 0, alerted |-> FALSE, added |-> 0]

\* nothing spent, no tick yet
CostQuiet ==
    /\ kcounter = [p \in Providers |-> 0]
    /\ ktracker = [p \in Providers |-> 0]
    /\ khour = 0
    /\ kreports = 0
    /\ kdaily = 0
    /\ kalerts = 0
    /\ kticks = 0
    /\ klast = NoTick


\* ------------------------------------------------ health monitor
NumMonProxies == 3
MonPids == 1..NumMonProxies
MaxMonReports == 2
MaxPasses == 2

\* proxy.health_score < 50
HealthyScore == 50

\* proxy.health_score < 20
CriticalScore == 20

\* healthy_count < 10
HealthyFloor == 10

\* _provision_proxies(20 - healthy_count)
ProvisionTarget == 20

NoPass == [how |-> "none", healthy |-> 0, unhealthy |-> 0, burnt |-> {},
           asked |-> 0, expHealthy |-> 0, expBurnt |-> {}]

\* no pass yet over an empty pool
MonQuiet ==
    /\ nrec = [p \in MonPids |-> NoRec]
    /\ nactive = {}
    /\ nburned = {}
    /\ npc = "sleep"
    /\ ntodo = {}
    /\ npass = NoPass
    /\ npasses = 0


\* ------------------------------------------------ latency and health score
NumLatProxies == 2
LatPids == 1..NumLatProxies
MaxLatReports == 2

\* reported response times in milliseconds
Latencies == {100, 150, 600}

\* the hash _save_proxy writes for a new proxy: response_times is "[]"
NewHash == [requests |-> 0, success |-> 0, times |-> <<>>, ewma |-> <<>>, lastUsed |-> ""]

NotScored == [state |-> "none", time |-> 0, of |-> NewHash]

\* nothing reported, nothing scored
LatQuiet ==
    /\ lhash = [p \in LatPids |-> NewHash]
    /\ lscore = [p \in LatPids |-> NotScored]


\* ------------------------------------- sliding-window limiter: configuration
NumWinRequests == 3
MaxWinTime == 3
\* max_requests and window of the route's entry in RATE_LIMIT_CONFIGS, scaled
\* down
MaxRequests == 2
WindowSeconds == 2

WinRequests == 1..NumWinRequests

\* a request the middleware has not seen yet
NewWinRequest == [pc |-> "new", t |-> 0, at |-> 0, verdict |-> "none", recorded |-> FALSE,
                  seen |-> 0, retry |-> 0, err |-> "none", info |-> FALSE, calls |-> 0,
                  resp |-> "none", headers |-> FALSE]

\* no key in the store, no request yet
WinQuiet ==
    /\ wset = {}
    /\ wexp = 0
    /\ wnow = 0
    /\ wq = [r \in WinRequests |-> NewWinRequest]

\* --------------------------------------------------- cache: configuration
NumCacheClients == 2
NumTasks == 2
MaxCacheCalls == 3
MaxCacheTime == 4
\* default_ttl and swr_ttl as passed to the constructor, in ticks of the clock
DefaultTtl == 1
SwrTtl == 3

CacheClients == 1..NumCacheClients
Tasks == 1..NumTasks

\* time.time() at tick 0: seconds since the epoch, far above any ttl
EpochOffset == 1000

\* what the downstream handler can answer to the GET
Responses ==
    { [status |-> 200, ct |-> "application/json", body |-> "a"],
      [status |-> 404, ct |-> "text/html", body |-> "b"],
      [status |-> 200, ct |-> "application/json", body |-> ""] }

NoResponse == [status |-> 0, ct |-> "", body |-> ""]

NoEntry == [has |-> FALSE, resp |-> NoResponse, ts |-> 0, exp |-> 0]

IdleRequest == [pc |-> "idle", t0 |-> 0, found |-> FALSE, raw |-> "", resp |-> NoResponse,
                handled |-> FALSE, ts |-> 0]

IdleTask == [pc |-> "free", resp |-> NoResponse, ts |-> 0]

\* the cache before its first request
CacheQuiet ==
    /\ cdecode = FALSE
    /\ centry = NoEntry
    /\ cq = [q \in CacheClients |-> IdleRequest]
    /\ rf = [t \in Tasks |-> IdleTask]
    /\ nrf = 0
    /\ hcalls = 0
    /\ ccalls = 0

\* -------------------------------------------------------------- the callers
Idle == [pc |-> "idle", batch |-> {}, todo |-> {}, cands |-> {},
         pick |-> 0, held |-> 0, succ |-> FALSE, req |-> 0, gone |-> {}]

\* the call of c is over
Returned(c) == [cl EXCEPT ![c] = Idle]

\* a record after ten report_usage calls, three of them failures
WarmRec == [any |-> TRUE, core |-> TRUE, requests |-> 10, failures |-> 3,
            success |-> 7, ewma |-> TRUE, lastUsed |-> "z", ttl |-> FALSE]

\* the proxy acquisitions of a pool in use that are still to be reported
WarmOut == 4

\* the proxy pool before its first call
ProxyQuiet ==
    /\ active = {} /\ burned = {}
    /\ rec = [p \in Pids |-> NoRec]
    /\ inflight = [p \in Pids |-> 0]
    /\ alerts = [p \in Pids |-> 0]
    /\ cl = [c \in Clients |-> Idle]
    /\ out = [p \in Pids |-> 0]
    /\ raised = FALSE
    /\ ncalls = 0

\* ------------------------------------------------------ Proxy.health_score
MaxHealthRequests == 3

\* avg_response_time in ms: no sample, 50, 500, 1500 (the score reaches 0),
\* 2000
AvgTimes == {0, 50, 500, 1500, 2000}

\* last_used: unset, a naive datetime so many minutes back (negative: ahead of
\* the clock), or a timezone-aware datetime as parsed from "...Z"
LastUsedKinds == {"none", "naive", "aware"}
MinutesAgo == {0 - 6, 0, 6, 60, 66}

ProxyObjects ==
    { h \in [requests : 0..MaxHealthRequests, success : 0..MaxHealthRequests,
             avg : AvgTimes, last : LastUsedKinds, minutes : MinutesAgo] :
        /\ h.success <= h.requests
        /\ (h.last # "naive" => h.minutes = 0) }

NoHealth == [raised |-> FALSE, scaled |-> 0, scale |-> 1]

\* max(0, 30 - (avg_time / 50)) if avg_time > 0 else 30
TimeScore(avg) == IF avg > 0 THEN Max(0, 30 - (avg \div 50)) ELSE 30

\* max(0, 10 - (minutes_ago / 6)), 10 when last_used is unset
RecencyScore(h) ==
    IF h.last = "none" THEN 10 ELSE Max(0, 10 - (h.minutes \div 6))

\* datetime.now() - self.last_used with an aware last_used raises TypeError;
\* the line is reached when requests > 0 and last_used is set
HealthScoreRaises(h) == h.requests > 0 /\ h.last = "aware"

\* health_score as a fraction scaled/scale: 100 for requests = 0, else
\* min(100, success / requests * 60 + time_score + recency_score)
HealthScoreOf(h) ==
    IF h.requests = 0 THEN [raised |-> FALSE, scaled |-> 100, scale |-> 1]
    ELSE [raised |-> FALSE, scale |-> h.requests,
          scaled |-> Min(100 * h.requests,
                         h.success * 60 + h.requests * (TimeScore(h.avg) + RecencyScore(h)))]

HealthQuiet ==
    /\ hin = [requests |-> 0, success |-> 0, avg |-> 0, last |-> "none", minutes |-> 0]
    /\ hres = NoHealth
    /\ hpc = "idle"

\* proxy.health_score returns
HsScore ==
    /\ hpc = "idle"
    /\ ~HealthScoreRaises(hin)
    /\ hres' = HealthScoreOf(hin)
    /\ hpc' = "done"
    /\ UNCHANGED hin
    /\ UNCHANGED notHealthVars

\* proxy.health_score raises
HsRaise ==
    /\ hpc = "idle"
    /\ HealthScoreRaises(hin)
    /\ hres' = [NoHealth EXCEPT !.raised = TRUE]
    /\ hpc' = "done"
    /\ UNCHANGED hin
    /\ UNCHANGED notHealthVars

InitHealth ==
    /\ WinQuiet
    /\ LatQuiet
    /\ MonQuiet
    /\ CostQuiet
    /\ RotQuiet
    /\ EwmaQuiet
    /\ ClientQuiet
    /\ LoopQuiet
    /\ SelQuiet
    /\ ChainQuiet
    /\ GsQuiet
    /\ TbQuiet
    /\ ProxyQuiet
    /\ RateQuiet
    /\ CacheQuiet
    /\ hin \in ProxyObjects
    /\ hres = NoHealth
    /\ hpc = "idle"

NextHealth ==
    \/ HsScore
    \/ HsRaise

SpecHealth == InitHealth /\ [][NextHealth]_vars

\* Either a new deployment with an empty store, or a pool in use: proxy 1 was
\* acquired 10 + WarmOut times while it was new (callers passing a
\* max_inflight that allows it), ten of the acquisitions have been reported
\* and the others are still out.
InitProxy ==
    /\ WinQuiet
    /\ LatQuiet
    /\ MonQuiet
    /\ CostQuiet
    /\ RotQuiet
    /\ EwmaQuiet
    /\ ClientQuiet
    /\ LoopQuiet
    /\ SelQuiet
    /\ ChainQuiet
    /\ GsQuiet
    /\ TbQuiet
    /\ RateQuiet
    /\ CacheQuiet
    /\ HealthQuiet
    /\ burned = {}
    /\ alerts = [p \in Pids |-> 0]
    /\ ncalls = 0
    /\ raised = FALSE
    /\ cl = [c \in Clients |-> Idle]
    /\ \/ /\ active = {}
          /\ rec = [p \in Pids |-> NoRec]
          /\ inflight = [p \in Pids |-> 0]
          /\ out = [p \in Pids |-> 0]
       \/ /\ active = {1}
          /\ rec = [p \in Pids |-> IF p = 1 THEN WarmRec ELSE NoRec]
          /\ inflight = [p \in Pids |-> IF p = 1 THEN WarmOut ELSE 0]
          /\ out = [p \in Pids |-> IF p = 1 THEN WarmOut ELSE 0]

\* ---------------------------------------------------------------- get_proxy
\* The ids a provider can hand out now: session ids embed int(time.time())
\* and the index, so a batch collides only with proxies provisioned within
\* the same second, i.e. not yet used.
Provisionable(p) ==
    /\ p \notin burned
    /\ \/ ~rec[p].any
       \/ rec[p].requests = 0 /\ ~rec[p].ewma /\ ~rec[p].ttl /\ rec[p].lastUsed = ""

\* the requirements filter of the scoring loop
Eligible(r) == HealthScore(r) >= MinHealthScore

\* scored_proxies.sort(key=score, reverse=True)[0]: the best score, the first
\* scanned among equals
ExploitPick(cs) ==
    CHOOSE p \in cs : \A q \in cs :
        \/ HealthScore(rec[p]) > HealthScore(rec[q])
        \/ HealthScore(rec[p]) = HealthScore(rec[q]) /\ p <= q

\* epsilon-greedy: random.choices over all candidates when exploring (only
\* with more than one candidate), else the exploit pick
PickSet(cs, explore) ==
    IF explore /\ Cardinality(cs) > 1 THEN cs ELSE {ExploitPick(cs)}

\* the proxies of which a run of _burn_proxy has finished
BurnCompleted == {p \in Pids : alerts[p] > 0}

\* smembers(active); an empty pool provisions first.  gone notes the
\* proxies whose burn was complete when the call started.
GpStart(c) ==
    /\ cl[c].pc = "idle"
    /\ ncalls < MaxCalls
    /\ ncalls' = ncalls + 1
    /\ IF active = {}
       THEN \E b \in SUBSET {p \in Pids : Provisionable(p)} :
              cl' = [cl EXCEPT ![c] = [Idle EXCEPT
                       !.pc = IF b = {} THEN "gp_smembers2" ELSE "gp_save",
                       !.batch = b, !.gone = BurnCompleted]]
       ELSE cl' = [cl EXCEPT ![c] = [Idle EXCEPT !.pc = "gp_scan", !.todo = active,
                                                 !.gone = BurnCompleted]]
    /\ UNCHANGED <<active, burned, rec, inflight, alerts, out, raised>>
    /\ UNCHANGED notProxyVars

\* _provision_proxies: _save_proxy(proxy)
GpSave(c) ==
    /\ cl[c].pc = "gp_save"
    /\ LET p == SetMin(cl[c].batch) IN
         rec' = [rec EXCEPT ![p] = SaveProxy(@)]
    /\ cl' = [cl EXCEPT ![c].pc = "gp_sadd"]
    /\ UNCHANGED <<active, burned, inflight, alerts, out, raised, ncalls>>
    /\ UNCHANGED notProxyVars

\* _provision_proxies: sadd(active, proxy_id(proxy))
GpSadd(c) ==
    /\ cl[c].pc = "gp_sadd"
    /\ LET p == SetMin(cl[c].batch)
           rest == cl[c].batch \ {p} IN
         /\ active' = active \cup {p}
         /\ cl' = [cl EXCEPT ![c].batch = rest,
                             ![c].pc = IF rest = {} THEN "gp_smembers2" ELSE "gp_save"]
    /\ UNCHANGED <<burned, rec, inflight, alerts, out, raised, ncalls>>
    /\ UNCHANGED notProxyVars

\* the second smembers(active), after provisioning
GpSmembers2(c) ==
    /\ cl[c].pc = "gp_smembers2"
    /\ cl' = IF active = {} THEN Returned(c)
             ELSE [cl EXCEPT ![c].pc = "gp_scan", ![c].todo = active]
    /\ UNCHANGED <<active, burned, rec, inflight, alerts, out, raised, ncalls>>
    /\ UNCHANGED notProxyVars

\* one round of the scoring loop: hgetall, from_dict, filter; after the last
\* id the pick is made
GpScan(c) ==
    /\ cl[c].pc = "gp_scan"
    /\ LET p == SetMin(cl[c].todo)
           r == rec[p]
           rest == cl[c].todo \ {p}
           cs == IF r.any /\ Eligible(r) THEN cl[c].cands \cup {p} ELSE cl[c].cands
       IN
         /\ ~(r.any /\ (FromDictRaises(r) \/ HealthRaises(r)))
         /\ IF rest # {}
            THEN cl' = [cl EXCEPT ![c].todo = rest, ![c].cands = cs]
            ELSE IF cs = {}
            THEN cl' = Returned(c)
            ELSE \E explore \in BOOLEAN : \E k \in PickSet(cs, explore) :
                   cl' = [cl EXCEPT ![c].todo = {}, ![c].cands = cs,
                                    ![c].pick = k, ![c].pc = "gp_incr"]
    /\ UNCHANGED <<active, burned, rec, inflight, alerts, out, raised, ncalls>>
    /\ UNCHANGED notProxyVars

\* the scoring loop reads a record that from_dict or health_score cannot
\* take: the exception leaves get_proxy
GpScanRaise(c) ==
    /\ cl[c].pc = "gp_scan"
    /\ LET r == rec[SetMin(cl[c].todo)] IN
         r.any /\ (FromDictRaises(r) \/ HealthRaises(r))
    /\ cl' = Returned(c)
    /\ raised' = TRUE
    /\ UNCHANGED <<active, burned, rec, inflight, alerts, out, ncalls>>
    /\ UNCHANGED notProxyVars

\* the capacity test on the value returned by the first incr
OverCapacity(n, m) == n > m

\* inflight = incr(inflight_key(pid)) and the capacity test
GpIncr(c) ==
    /\ cl[c].pc = "gp_incr"
    /\ LET p == cl[c].pick
           n == inflight[p] + 1 IN
         /\ inflight' = [inflight EXCEPT ![p] = n]
         /\ cl' = [cl EXCEPT ![c].pc = IF OverCapacity(n, MaxInflight)
                                       THEN "gp_decr" ELSE "gp_touch"]
    /\ UNCHANGED <<active, burned, rec, alerts, out, raised, ncalls>>
    /\ UNCHANGED notProxyVars

\* at capacity with no other candidate: return without the decr
GpDecrKept(c) ==
    /\ cl[c].pc = "gp_decr"
    /\ LET p == cl[c].pick
           cs == cl[c].cands \ {p} IN
         IF cs = {}
         THEN /\ cl' = Returned(c)
              /\ UNCHANGED inflight
         ELSE /\ inflight' = [inflight EXCEPT ![p] = @ - 1]
              /\ \E k \in cs :
                   cl' = [cl EXCEPT ![c].cands = cs, ![c].pick = k,
                                    ![c].pc = "gp_incr2"]
    /\ UNCHANGED <<active, burned, rec, alerts, out, raised, ncalls>>
    /\ UNCHANGED notProxyVars

\* at capacity: decr, drop the candidate, choose among the remainder
GpDecr(c) ==
    /\ cl[c].pc = "gp_decr"
    /\ LET p == cl[c].pick
           cs == cl[c].cands \ {p} IN
         /\ inflight' = [inflight EXCEPT ![p] = @ - 1]
         /\ IF cs = {}
            THEN cl' = Returned(c)
            ELSE \E k \in cs :
                   cl' = [cl EXCEPT ![c].cands = cs, ![c].pick = k,
                                    ![c].pc = "gp_incr2"]
    /\ UNCHANGED <<active, burned, rec, alerts, out, raised, ncalls>>
    /\ UNCHANGED notProxyVars

\* the incr of the second pick; its result is not looked at
GpIncr2(c) ==
    /\ cl[c].pc = "gp_incr2"
    /\ inflight' = [inflight EXCEPT ![cl[c].pick] = @ + 1]
    /\ cl' = [cl EXCEPT ![c].pc = "gp_touch"]
    /\ UNCHANGED <<active, burned, rec, alerts, out, raised, ncalls>>
    /\ UNCHANGED notProxyVars

\* hset(last_used) and return pick
GpTouch(c) ==
    /\ cl[c].pc = "gp_touch"
    /\ rec' = [rec EXCEPT ![cl[c].pick] = [@ EXCEPT !.any = TRUE, !.lastUsed = "z"]]
    /\ out' = [out EXCEPT ![cl[c].pick] = @ + 1]
    /\ cl' = Returned(c)
    /\ UNCHANGED <<active, burned, inflight, alerts, raised, ncalls>>
    /\ UNCHANGED notProxyVars

\* ------------------------------------------------------------- report_usage
\* report_usage(proxy, success, ...): the pipeline is queued and the current
\* EWMA read with hget
RuStart(c) ==
    /\ cl[c].pc = "idle"
    /\ \E p \in Pids : \E s \in BOOLEAN :
         /\ out[p] > 0
         /\ out' = [out EXCEPT ![p] = @ - 1]
         /\ cl' = [cl EXCEPT ![c] = [Idle EXCEPT !.pc = "ru_exec", !.held = p, !.succ = s]]
    /\ UNCHANGED <<active, burned, rec, inflight, alerts, raised, ncalls>>
    /\ UNCHANGED notProxyVars

\* a pipeline without the hincrby of success / failures
ApplyUsageUncounted(r, s) ==
    [r EXCEPT !.any = TRUE, !.requests = @ + 1, !.ewma = TRUE, !.lastUsed = "z"]

\* the hincrby / hset of the pipeline
ApplyUsage(r, s) ==
    [r EXCEPT !.any = TRUE, !.requests = @ + 1,
              !.success = IF s THEN @ + 1 ELSE @,
              !.failures = IF s THEN @ ELSE @ + 1,
              !.ewma = TRUE, !.lastUsed = "z"]

\* a report that leaves the counter alone
ReleaseInflightLeak(n) == n

\* pipe.decr(inflight_key(pid))
ReleaseInflight(n) == n - 1

\* pipe.execute(): one MULTI/EXEC transaction
RuExec(c) ==
    /\ cl[c].pc = "ru_exec"
    /\ LET p == cl[c].held IN
         /\ rec' = [rec EXCEPT ![p] = ApplyUsage(@, cl[c].succ)]
         /\ inflight' = [inflight EXCEPT ![p] = ReleaseInflight(@)]
    /\ cl' = [cl EXCEPT ![c].pc = "ru_req"]
    /\ UNCHANGED <<active, burned, alerts, out, raised, ncalls>>
    /\ UNCHANGED notProxyVars

\* req = int(hget(key, "requests") or 0)
RuReq(c) ==
    /\ cl[c].pc = "ru_req"
    /\ cl' = [cl EXCEPT ![c].req = rec[cl[c].held].requests, ![c].pc = "ru_fail"]
    /\ UNCHANGED <<active, burned, rec, inflight, alerts, out, raised, ncalls>>
    /\ UNCHANGED notProxyVars

\* failure_rate > 30 and req > 10, with failure_rate = fail / req * 100
BurnGuard(fail, req) ==
    /\ req # 0
    /\ fail * 100 > BurnFailurePct * req
    /\ req > BurnMinRequests

\* fail = int(hget(key, "failures") or 0) and the burn guard
RuFail(c) ==
    /\ cl[c].pc = "ru_fail"
    /\ cl' = IF BurnGuard(rec[cl[c].held].failures, cl[c].req)
             THEN [cl EXCEPT ![c].pc = "burn_srem"]
             ELSE Returned(c)
    /\ UNCHANGED <<active, burned, rec, inflight, alerts, out, raised, ncalls>>
    /\ UNCHANGED notProxyVars

\* --------------------------------------------------------------- _burn_proxy
\* a burn that leaves the active set alone
BurnSremSkipped(c) ==
    /\ cl[c].pc = "burn_srem"
    /\ cl' = [cl EXCEPT ![c].pc = "burn_sadd"]
    /\ UNCHANGED <<active, burned, rec, inflight, alerts, out, raised, ncalls>>
    /\ UNCHANGED notProxyVars

\* srem(active, pid)
BurnSrem(c) ==
    /\ cl[c].pc = "burn_srem"
    /\ active' = active \ {cl[c].held}
    /\ cl' = [cl EXCEPT ![c].pc = "burn_sadd"]
    /\ UNCHANGED <<burned, rec, inflight, alerts, out, raised, ncalls>>
    /\ UNCHANGED notProxyVars

BurnSadd(c) ==
    /\ cl[c].pc = "burn_sadd"
    /\ burned' = burned \cup {cl[c].held}
    /\ cl' = [cl EXCEPT ![c].pc = "burn_expire"]
    /\ UNCHANGED <<active, rec, inflight, alerts, out, raised, ncalls>>
    /\ UNCHANGED notProxyVars

\* expire(proxy_detail_key(pid), 86400): no effect on a missing key
BurnExpire(c) ==
    /\ cl[c].pc = "burn_expire"
    /\ rec' = [rec EXCEPT ![cl[c].held].ttl = rec[cl[c].held].any]
    /\ cl' = [cl EXCEPT ![c].pc = "burn_publish"]
    /\ UNCHANGED <<active, burned, inflight, alerts, out, raised, ncalls>>
    /\ UNCHANGED notProxyVars

\* the alert published by one run of _burn_proxy
PublishBurn(n) == n + 1

BurnPublish(c) ==
    /\ cl[c].pc = "burn_publish"
    /\ alerts' = [alerts EXCEPT ![cl[c].held] = PublishBurn(@)]
    /\ cl' = Returned(c)
    /\ UNCHANGED <<active, burned, rec, inflight, out, raised, ncalls>>
    /\ UNCHANGED notProxyVars

\* the store drops a record whose 24 h retention has run out
ExpireRecord(p) ==
    /\ rec[p].ttl
    /\ rec' = [rec EXCEPT ![p] = NoRec]
    /\ UNCHANGED <<active, burned, inflight, alerts, cl, out, raised, ncalls>>
    /\ UNCHANGED notProxyVars

NextProxy ==
    \/ \E c \in Clients : GpStart(c)
    \/ \E c \in Clients : GpSave(c)
    \/ \E c \in Clients : GpSadd(c)
    \/ \E c \in Clients : GpSmembers2(c)
    \/ \E c \in Clients : GpScan(c)
    \/ \E c \in Clients : GpScanRaise(c)
    \/ \E c \in Clients : GpIncr(c)
    \/ \E c \in Clients : GpDecr(c)
    \/ \E c \in Clients : GpIncr2(c)
    \/ \E c \in Clients : GpTouch(c)
    \/ \E c \in Clients : RuStart(c)
    \/ \E c \in Clients : RuExec(c)
    \/ \E c \in Clients : RuReq(c)
    \/ \E c \in Clients : RuFail(c)
    \/ \E c \in Clients : BurnSrem(c)
    \/ \E c \in Clients : BurnSadd(c)
    \/ \E c \in Clients : BurnExpire(c)
    \/ \E c \in Clients : BurnPublish(c)
    \/ \E p \in Pids : ExpireRecord(p)

SpecProxy == InitProxy /\ [][NextProxy]_vars

\* ------------------------------------------------- rate limiter: the bucket
\* seconds since the last refill; a timestamp older than the last refill
\* counts as no time elapsed
Elapsed(ts, t) == IF t > ts THEN t - ts ELSE 0

\* a refill with no cap
RefillUncapped(b, cap, rate, t) == b.tokens + Elapsed(b.ts, t) * rate

\* tokens = min(capacity, tokens + elapsed_seconds * refill_rate)
Refill(b, cap, rate, t) == Min(cap, b.tokens + Elapsed(b.ts, t) * rate)

\* an allowed request that takes no token
DebitLost(tokens, cost) == tokens

\* the debit of an allowed request
Debit(tokens, cost) == tokens - cost

\* retry_after = (cost - tokens) / refill_rate, handed back in milliseconds
RetryAfterMs(tokens, rate, cost) == ((cost - tokens) * 1000) \div rate

\* The script run by evalsha: refill, compare with the cost, debit.  The store
\* runs a script as one indivisible operation.
CheckBucket(b, cap, rate, t, cost) ==
    LET tk == Refill(b, cap, rate, t)
        ok == tk >= cost
    IN [allowed |-> ok,
        bucket |-> [tokens |-> IF ok THEN Debit(tk, cost) ELSE tk,
                    ts |-> Max(b.ts, t)],
        retry |-> IF ok THEN 0 ELSE RetryAfterMs(tk, rate, cost)]

\* ------------------------------------------ EnhancedRateLimitMiddleware.__call__
\* a limiter that compares with > instead of >=
ShedNowStrict(c, threshold) == c > threshold

\* CONCURRENCY._value >= self.shed_threshold
ShedNow(c, threshold) == c >= threshold

\* a loop that runs through all tiers and looks at the last verdict only
AfterTierLate(allowed, lvl) ==
    IF lvl < Len(Levels) THEN "next" ELSE IF ~allowed THEN "reject" ELSE "enter"

\* the loop over the tiers: reject at the first tier that does not allow,
\* else go on to the next tier, and after the last one enter the semaphore
AfterTier(allowed, lvl) ==
    IF ~allowed THEN "reject" ELSE IF lvl < Len(Levels) THEN "next" ELSE "enter"

\* retry_after=0.2 of the admission rejection, in milliseconds
ShedRetryMs == 200

\* a _reject that never sends the header
RetryHeaderNone(ms) == {}

\* _reject: the retry-after header is appended `if retry_after`
RetryHeader(ms) == IF ms # 0 THEN {ms} ELSE {}

\* a finally clause that leaves the gauge alone
GaugeDecSkipped(c) == c

\* finally: CONCURRENCY.dec()
GaugeDec(c) == c - 1

\* admission control, then the keys; the first _check_bucket reads the clock
RlAdmit(r) ==
    /\ rq[r].pc = "new"
    /\ \E rt \in Routes : \E i \in Ips :
         rq' = [rq EXCEPT ![r] =
                  IF ShedNow(conc, rcfg.shed)
                  THEN [@ EXCEPT !.pc = "done", !.route = rt, !.ip = i,
                                 !.resp = "admission_shed", !.status = 429,
                                 !.hdr = RetryHeader(ShedRetryMs)]
                  ELSE [@ EXCEPT !.pc = "check", !.route = rt, !.ip = i,
                                 !.lvl = 1, !.nowms = now]]
    /\ UNCHANGED <<rcfg, bucket, granted, sema, conc, now>>
    /\ UNCHANGED notRateVars

\* a loop that, when a tier rejects, gives the earlier tiers their tokens back
RlCheckRefunding(r) ==
    /\ rq[r].pc = "check"
    /\ LET level == Levels[rq[r].lvl]
           k == KeyOf(level, rq[r].route, UserSeen(r), rq[r].ip)
           res == CheckBucket(bucket[k], rcfg.cap[level], RateOf(level),
                              rq[r].nowms, Cost)
           go == AfterTier(res.allowed, rq[r].lvl)
           deb == IF res.allowed THEN rq[r].debited \cup {level} ELSE rq[r].debited
       IN
         /\ bucket' = [j \in BucketKeys |->
                         IF j = k THEN res.bucket
                         ELSE IF ~res.allowed /\ \E lv \in rq[r].debited :
                                    j = KeyOf(lv, rq[r].route, UserSeen(r), rq[r].ip)
                         THEN [bucket[j] EXCEPT !.tokens = @ + Cost]
                         ELSE bucket[j]]
         /\ granted' = [granted EXCEPT ![k] = IF res.allowed THEN @ + 1 ELSE @]
         /\ CASE go = "reject" ->
                   /\ rq' = [rq EXCEPT ![r] = [@ EXCEPT !.pc = "done", !.debited = deb,
                                 !.resp = "rate_limited_" \o level, !.status = 429,
                                 !.hdr = RetryHeader(res.retry)]]
                   /\ UNCHANGED <<sema, conc>>
              [] go = "next" ->
                   /\ rq' = [rq EXCEPT ![r] = [@ EXCEPT !.lvl = @ + 1, !.debited = deb,
                                 !.nowms = now]]
                   /\ UNCHANGED <<sema, conc>>
              [] go = "enter" /\ sema > 0 ->
                   /\ rq' = [rq EXCEPT ![r] = [@ EXCEPT !.pc = "app", !.debited = deb]]
                   /\ sema' = sema - 1
                   /\ conc' = conc + 1
              [] go = "enter" /\ sema = 0 ->
                   /\ rq' = [rq EXCEPT ![r] = [@ EXCEPT !.pc = "wait", !.debited = deb]]
                   /\ UNCHANGED <<sema, conc>>
    /\ UNCHANGED <<rcfg, now>>
    /\ UNCHANGED notRateVars

\* evalsha on the bucket of the current tier, then the rest of the loop body;
\* after the last tier `async with self.sema` and CONCURRENCY.inc()
RlCheck(r) ==
    /\ rq[r].pc = "check"
    /\ LET level == Levels[rq[r].lvl]
           k == KeyOf(level, rq[r].route, UserSeen(r), rq[r].ip)
           res == CheckBucket(bucket[k], rcfg.cap[level], RateOf(level),
                              rq[r].nowms, Cost)
           go == AfterTier(res.allowed, rq[r].lvl)
           deb == IF res.allowed THEN rq[r].debited \cup {level} ELSE rq[r].debited
       IN
         /\ bucket' = [bucket EXCEPT ![k] = res.bucket]
         /\ granted' = [granted EXCEPT ![k] = IF res.allowed THEN @ + 1 ELSE @]
         /\ CASE go = "reject" ->
                   /\ rq' = [rq EXCEPT ![r] = [@ EXCEPT !.pc = "done", !.debited = deb,
                                 !.resp = "rate_limited_" \o level, !.status = 429,
                                 !.hdr = RetryHeader(res.retry)]]
                   /\ UNCHANGED <<sema, conc>>
              [] go = "next" ->
                   /\ rq' = [rq EXCEPT ![r] = [@ EXCEPT !.lvl = @ + 1, !.debited = deb,
                                 !.nowms = now]]
                   /\ UNCHANGED <<sema, conc>>
              [] go = "enter" /\ sema > 0 ->
                   /\ rq' = [rq EXCEPT ![r] = [@ EXCEPT !.pc = "app", !.debited = deb]]
                   /\ sema' = sema - 1
                   /\ conc' = conc + 1
              [] go = "enter" /\ sema = 0 ->
                   /\ rq' = [rq EXCEPT ![r] = [@ EXCEPT !.pc = "wait", !.debited = deb]]
                   /\ UNCHANGED <<sema, conc>>
    /\ UNCHANGED <<rcfg, now>>
    /\ UNCHANGED notRateVars

\* a waiter gets the semaphore
RlAcquire(r) ==
    /\ rq[r].pc = "wait"
    /\ sema > 0
    /\ sema' = sema - 1
    /\ conc' = conc + 1
    /\ rq' = [rq EXCEPT ![r].pc = "app"]
    /\ UNCHANGED <<rcfg, bucket, granted, now>>
    /\ UNCHANGED notRateVars

\* the downstream application is through: CONCURRENCY.dec(), release
RlAppDone(r) ==
    /\ rq[r].pc = "app"
    /\ conc' = GaugeDec(conc)
    /\ sema' = sema + 1
    /\ rq' = [rq EXCEPT ![r] = [@ EXCEPT !.pc = "done", !.resp = "ok", !.status = 200]]
    /\ UNCHANGED <<rcfg, bucket, granted, now>>
    /\ UNCHANGED notRateVars

\* the downstream application raises or the request is cancelled in it: the
\* finally clause and the exit of `async with` run all the same
RlAppFail(r) ==
    /\ rq[r].pc = "app"
    /\ conc' = GaugeDec(conc)
    /\ sema' = sema + 1
    /\ rq' = [rq EXCEPT ![r] = [@ EXCEPT !.pc = "done", !.resp = "error"]]
    /\ UNCHANGED <<rcfg, bucket, granted, now>>
    /\ UNCHANGED notRateVars

\* a request is cancelled while it waits for the semaphore: acquire() gives
\* no slot, the body of `async with` is never entered
RlCancelWait(r) ==
    /\ rq[r].pc = "wait"
    /\ rq' = [rq EXCEPT ![r] = [@ EXCEPT !.pc = "done", !.resp = "cancelled"]]
    /\ UNCHANGED <<rcfg, bucket, granted, sema, conc, now>>
    /\ UNCHANGED notRateVars

\* a second passes
Tick ==
    /\ now < MaxTime
    /\ now' = now + 1
    /\ UNCHANGED <<rcfg, bucket, granted, rq, sema, conc>>
    /\ UNCHANGED notRateVars

InitRate ==
    /\ WinQuiet
    /\ LatQuiet
    /\ MonQuiet
    /\ CostQuiet
    /\ RotQuiet
    /\ EwmaQuiet
    /\ ClientQuiet
    /\ LoopQuiet
    /\ SelQuiet
    /\ ChainQuiet
    /\ GsQuiet
    /\ TbQuiet
    /\ ProxyQuiet
    /\ CacheQuiet
    /\ HealthQuiet
    /\ rcfg \in RateConfigs
    /\ bucket = [k \in BucketKeys |-> [tokens |-> rcfg.cap[LevelOfKey(k)], ts |-> 0]]
    /\ granted = [k \in BucketKeys |-> 0]
    /\ rq = [r \in Requests |-> NewRequest]
    /\ sema = rcfg.mc
    /\ conc = 0
    /\ now = 0

NextRate ==
    \/ \E r \in Requests : RlAdmit(r)
    \/ \E r \in Requests : RlCheck(r)
    \/ \E r \in Requests : RlAcquire(r)
    \/ \E r \in Requests : RlAppDone(r)
    \/ \E r \in Requests : RlAppFail(r)
    \/ \E r \in Requests : RlCancelWait(r)
    \/ Tick

SpecRate == InitRate /\ [][NextRate]_vars

\* ------------------------------------------------ _check_bucket under a burst
\* one more request of the burst: evalsha with the capacity, the rate and
\* cost 1
TbRequest ==
    /\ tbn + tbrej < MaxBurst
    /\ LET res == CheckBucket(tb, tbcap * TicksPerToken, 1, tbnow, Cost * TicksPerToken) IN
         /\ tb' = res.bucket
         /\ tbn' = IF res.allowed THEN tbn + 1 ELSE tbn
         /\ tbrej' = IF res.allowed THEN tbrej ELSE tbrej + 1
    /\ UNCHANGED <<tbcap, tbnow, tbphase, tbwait>>
    /\ UNCHANGED notTbVars

\* the bucket is empty and the client waits k ticks
TbWait(k) ==
    /\ tbphase = "burst"
    /\ tb.tokens = 0
    /\ tbnow' = tbnow + k
    /\ tbwait' = k
    /\ tbphase' = "after"
    /\ tbn' = 0
    /\ tbrej' = 0
    /\ UNCHANGED <<tbcap, tb>>
    /\ UNCHANGED notTbVars

InitBucket ==
    /\ WinQuiet
    /\ LatQuiet
    /\ MonQuiet
    /\ CostQuiet
    /\ RotQuiet
    /\ EwmaQuiet
    /\ ClientQuiet
    /\ LoopQuiet
    /\ SelQuiet
    /\ ChainQuiet
    /\ GsQuiet
    /\ ProxyQuiet
    /\ RateQuiet
    /\ CacheQuiet
    /\ HealthQuiet
    /\ tbcap \in 1..MaxCap
    /\ tb = [tokens |-> tbcap * TicksPerToken, ts |-> 0]
    /\ tbnow = 0
    /\ tbphase = "burst"
    /\ tbn = 0
    /\ tbrej = 0
    /\ tbwait = 0

NextBucket ==
    \/ TbRequest
    \/ \E k \in 1..MaxWait : TbWait(k)

SpecBucket == InitBucket /\ [][NextBucket]_vars

\* ------------------------------------------------- CacheStrategy.get_or_set
\* the store holds lock:<key>
LockHeld == glock.owner # 0 /\ gnow < glock.exp

\* the value of the n-th invocation of loader
Loaded(n) == [id |-> n, form |-> IF gtyped THEN "typed" ELSE "json"]

\* json.dumps(payload, default=str): values json does not know are written
\* as their str(); json.loads gives back what the text says
Dumps(p) == [p EXCEPT !.form = IF @ = "typed" THEN "stringified" ELSE @]

\* a loop that never looks at the deadline
PollAgainAlways(t, deadline) == TRUE

\* while time.monotonic() < deadline
PollAgain(t, deadline) == t < deadline

\* cached = self.redis.get(key); a hit returns json.loads(cached)
GsGet(g) ==
    /\ gs[g].pc = "idle"
    /\ gnow < MaxGsTime
    /\ gs' = [gs EXCEPT ![g] =
                IF gkey # NoPayload
                THEN [@ EXCEPT !.pc = "done", !.ret = gkey, !.via = "cache"]
                ELSE [@ EXCEPT !.pc = "setnx"]]
    /\ UNCHANGED <<gkey, glock, gnow, gloads, gdecode, gtyped>>
    /\ UNCHANGED notGsVars

\* self.redis.set(lock_key, token, nx=True, ex=lock_expiration); the loser
\* computes its deadline and enters the polling loop
GsSetNx(g) ==
    /\ gs[g].pc = "setnx"
    /\ IF ~LockHeld
       THEN /\ glock' = [owner |-> g, exp |-> gnow + LockExpiration]
            /\ gs' = [gs EXCEPT ![g] = [@ EXCEPT !.pc = "load",
                                                 !.lexp = gnow + LockExpiration]]
       ELSE /\ gs' = [gs EXCEPT ![g] = [@ EXCEPT
                      !.pc = IF PollAgain(gnow, gnow + LockExpiration)
                             THEN "sleep" ELSE "fallback",
                      !.lost = TRUE, !.deadline = gnow + LockExpiration,
                      !.wake = gnow + 1]]
            /\ UNCHANGED glock
    /\ UNCHANGED <<gkey, gnow, gloads, gdecode, gtyped>>
    /\ UNCHANGED notGsVars

\* the winner: payload = await loader(); self.redis.setex(key, ttl_seconds,
\* json.dumps(payload, default=str)); return payload
GsLoaded(g) ==
    /\ gs[g].pc = "load"
    /\ gloads' = gloads + 1
    /\ gkey' = Dumps(Loaded(gloads + 1))
    /\ gs' = [gs EXCEPT ![g] = [@ EXCEPT !.pc = "rel_get", !.ret = Loaded(gloads + 1),
                                         !.via = "winner", !.wrote = TRUE,
                                         !.late = gnow >= gs[g].lexp]]
    /\ UNCHANGED <<glock, gnow, gdecode, gtyped>>
    /\ UNCHANGED notGsVars

\* finally: self.redis.get(lock_key) == token; the reply of a client that
\* does not decode is bytes and never equals the str token
GsRelGet(g) ==
    /\ gs[g].pc = "rel_get"
    /\ gs' = [gs EXCEPT ![g].pc =
                IF gdecode /\ LockHeld /\ glock.owner = g THEN "rel_del" ELSE "done"]
    /\ UNCHANGED <<gkey, glock, gnow, gloads, gdecode, gtyped>>
    /\ UNCHANGED notGsVars

\* self.redis.delete(lock_key)
GsRelDel(g) ==
    /\ gs[g].pc = "rel_del"
    /\ glock' = NoLock
    /\ gs' = [gs EXCEPT ![g].pc = "done"]
    /\ UNCHANGED <<gkey, gnow, gloads, gdecode, gtyped>>
    /\ UNCHANGED notGsVars

\* the loser: await asyncio.sleep(0.2) is over, cached = self.redis.get(key),
\* then the loop condition
GsPoll(g) ==
    /\ gs[g].pc = "sleep"
    /\ gnow >= gs[g].wake
    /\ gs' = [gs EXCEPT ![g] =
                IF gkey # NoPayload
                THEN [@ EXCEPT !.pc = "done", !.ret = gkey, !.via = "cache",
                               !.polls = @ + 1]
                ELSE IF PollAgain(gnow, gs[g].deadline)
                THEN [@ EXCEPT !.wake = gnow + 1, !.polls = @ + 1]
                ELSE [@ EXCEPT !.pc = "fallback", !.polls = @ + 1]]
    /\ UNCHANGED <<gkey, glock, gnow, gloads, gdecode, gtyped>>
    /\ UNCHANGED notGsVars

\* return await loader(): computed and not cached
GsFallback(g) ==
    /\ gs[g].pc = "fallback"
    /\ gloads' = gloads + 1
    /\ gs' = [gs EXCEPT ![g] = [@ EXCEPT !.pc = "done", !.ret = Loaded(gloads + 1),
                                         !.via = "loader"]]
    /\ UNCHANGED <<gkey, glock, gnow, gdecode, gtyped>>
    /\ UNCHANGED notGsVars

\* 0.2 s pass; the clock runs on while a call sleeps, and a call whose sleep
\* is over polls before the next 0.2 s are over
GsTick ==
    /\ gnow < MaxGsTime \/ \E g \in Callers : gs[g].pc = "sleep"
    /\ \A g \in Callers : gs[g].pc = "sleep" => gnow < gs[g].wake
    /\ gnow' = gnow + 1
    /\ UNCHANGED <<gs, gkey, glock, gloads, gdecode, gtyped>>
    /\ UNCHANGED notGsVars

InitGetOrSet ==
    /\ WinQuiet
    /\ LatQuiet
    /\ MonQuiet
    /\ CostQuiet
    /\ RotQuiet
    /\ EwmaQuiet
    /\ ClientQuiet
    /\ LoopQuiet
    /\ SelQuiet
    /\ ChainQuiet
    /\ ProxyQuiet
    /\ RateQuiet
    /\ CacheQuiet
    /\ HealthQuiet
    /\ TbQuiet
    /\ gs = [g \in Callers |-> IdleCall]
    /\ gkey = NoPayload
    /\ glock = NoLock
    /\ gnow = 0
    /\ gloads = 0
    /\ gdecode \in BOOLEAN
    /\ gtyped \in BOOLEAN

NextGetOrSet ==
    \/ \E g \in Callers : GsGet(g)
    \/ \E g \in Callers : GsSetNx(g)
    \/ \E g \in Callers : GsLoaded(g)
    \/ \E g \in Callers : GsRelGet(g)
    \/ \E g \in Callers : GsRelDel(g)
    \/ \E g \in Callers : GsPoll(g)
    \/ \E g \in Callers : GsFallback(g)
    \/ GsTick

SpecGetOrSet == InitGetOrSet /\ [][NextGetOrSet]_vars

\* the event loop runs every task that can run, every loader returns, and
\* time passes
FairGetOrSet ==
    /\ \A g \in Callers : WF_vars(GsSetNx(g)) /\ WF_vars(GsLoaded(g))
         /\ WF_vars(GsRelGet(g)) /\ WF_vars(GsRelDel(g)) /\ WF_vars(GsPoll(g))
         /\ WF_vars(GsFallback(g))
    /\ WF_vars(GsTick)

SpecGetOrSetLive == SpecGetOrSet /\ FairGetOrSet

\* ----------------------------------------------------- EnhancedCacheMiddleware
\* the store holds the key: it was set and its expiry has not come
Live(e) == e.has /\ now < e.exp

\* float(meta.get(b"ts", b"0")): a client that decodes replies returns str
\* keys, so the lookup of b"ts" falls back to b"0"
SeenTs(e) == IF cdecode THEN 0 - EpochOffset ELSE e.ts

\* age = time.time() - ts
SeenAge(e) == now - SeenTs(e)

\* the status and content type replayed on a hit: meta.get(b"status", b"200")
\* and meta.get(b"ct", b"application/json")
Replayed(e, raw) ==
    IF cdecode THEN [status |-> 200, ct |-> "application/json", body |-> raw]
    ELSE [status |-> e.resp.status, ct |-> e.resp.ct, body |-> raw]

\* age > self.default_ttl and age <= self.swr_ttl
IsStale(age) == age > DefaultTtl /\ age <= SwrTtl

\* pipe.set(key, body, ex=swr_ttl); pipe.hmset(meta_key, ...);
\* pipe.expire(meta_key, swr_ttl), run as one transaction
Stored(resp, ts) == [has |-> TRUE, resp |-> resp, ts |-> ts, exp |-> now + SwrTtl]

\* raw = await self.redis.get(key)
CaGet(q) ==
    /\ cq[q].pc = "idle"
    /\ ccalls < MaxCacheCalls
    /\ ccalls' = ccalls + 1
    /\ cq' = [cq EXCEPT ![q] = [IdleRequest EXCEPT !.pc = "meta", !.t0 = now,
                 !.found = Live(centry),
                 !.raw = IF Live(centry) THEN centry.resp.body ELSE ""]]
    /\ UNCHANGED <<cdecode, centry, rf, nrf, hcalls, now>>
    /\ UNCHANGED notCacheVars

\* meta = await self.redis.hgetall(meta_key) with both found: a hit that is
\* not stale, answered from the store
CaHit(q) ==
    /\ cq[q].pc = "meta"
    /\ cq[q].found /\ cq[q].raw # "" /\ Live(centry)
    /\ ~IsStale(SeenAge(centry))
    /\ cq' = [cq EXCEPT ![q].pc = "idle", ![q].resp = Replayed(centry, cq[q].raw)]
    /\ UNCHANGED <<cdecode, centry, rf, nrf, hcalls, ccalls, now>>
    /\ UNCHANGED notCacheVars

\* a stale hit: asyncio.create_task(self._refresh(...)), then the stored
\* response
CaHitStale(q) ==
    /\ cq[q].pc = "meta"
    /\ cq[q].found /\ cq[q].raw # "" /\ Live(centry)
    /\ IsStale(SeenAge(centry))
    /\ nrf < NumTasks
    /\ nrf' = nrf + 1
    /\ rf' = [rf EXCEPT ![nrf + 1].pc = "app"]
    /\ cq' = [cq EXCEPT ![q].pc = "idle", ![q].resp = Replayed(centry, cq[q].raw)]
    /\ UNCHANGED <<cdecode, centry, hcalls, ccalls, now>>
    /\ UNCHANGED notCacheVars

\* `if raw and meta` is false: no body, an empty body or no metadata
CaMiss(q) ==
    /\ cq[q].pc = "meta"
    /\ ~(cq[q].found /\ cq[q].raw # "" /\ Live(centry))
    /\ cq' = [cq EXCEPT ![q].pc = "app"]
    /\ UNCHANGED <<cdecode, centry, rf, nrf, hcalls, ccalls, now>>
    /\ UNCHANGED notCacheVars

\* _populate_and_forward: the handler answers through send_wrapper, which
\* forwards every message to the caller; then the pipeline is queued with
\* ts = time.time()
CaApp(q) ==
    /\ cq[q].pc = "app"
    /\ hcalls' = hcalls + 1
    /\ \E a \in Responses :
         cq' = [cq EXCEPT ![q].pc = "populate", ![q].resp = a, ![q].handled = TRUE,
                          ![q].ts = now]
    /\ UNCHANGED <<cdecode, centry, rf, nrf, ccalls, now>>
    /\ UNCHANGED notCacheVars

\* await pipe.execute() of _populate_and_forward, the end of the request
CaPopulate(q) ==
    /\ cq[q].pc = "populate"
    /\ centry' = Stored(cq[q].resp, cq[q].ts)
    /\ cq' = [cq EXCEPT ![q].pc = "idle"]
    /\ UNCHANGED <<cdecode, rf, nrf, hcalls, ccalls, now>>
    /\ UNCHANGED notCacheVars

\* _refresh / _populate: the handler answers into blackhole_send
RfApp(t) ==
    /\ rf[t].pc = "app"
    /\ hcalls' = hcalls + 1
    /\ \E a \in Responses :
         rf' = [rf EXCEPT ![t] = [pc |-> "populate", resp |-> a, ts |-> now]]
    /\ UNCHANGED <<cdecode, centry, cq, nrf, ccalls, now>>
    /\ UNCHANGED notCacheVars

\* await pipe.execute() of _populate
RfPopulate(t) ==
    /\ rf[t].pc = "populate"
    /\ centry' = Stored(rf[t].resp, rf[t].ts)
    /\ rf' = [rf EXCEPT ![t].pc = "done"]
    /\ UNCHANGED <<cdecode, cq, nrf, hcalls, ccalls, now>>
    /\ UNCHANGED notCacheVars

\* a tick of the clock
CacheTick ==
    /\ now < MaxCacheTime
    /\ now' = now + 1
    /\ UNCHANGED cacheVars
    /\ UNCHANGED notCacheVars

\* The middleware is built around a store client; services/api/main.py hands
\* it one made with decode_responses=True, the client's default is False.
InitCache ==
    /\ WinQuiet
    /\ LatQuiet
    /\ MonQuiet
    /\ CostQuiet
    /\ RotQuiet
    /\ EwmaQuiet
    /\ ClientQuiet
    /\ LoopQuiet
    /\ SelQuiet
    /\ ChainQuiet
    /\ GsQuiet
    /\ TbQuiet
    /\ ProxyQuiet
    /\ RateQuiet
    /\ HealthQuiet
    /\ cdecode \in BOOLEAN
    /\ centry = NoEntry
    /\ cq = [q \in CacheClients |-> IdleRequest]
    /\ rf = [t \in Tasks |-> IdleTask]
    /\ nrf = 0
    /\ hcalls = 0
    /\ ccalls = 0

NextCache ==
    \/ \E q \in CacheClients : CaGet(q)
    \/ \E q \in CacheClients : CaHit(q)
    \/ \E q \in CacheClients : CaHitStale(q)
    \/ \E q \in CacheClients : CaMiss(q)
    \/ \E q \in CacheClients : CaApp(q)
    \/ \E q \in CacheClients : CaPopulate(q)
    \/ \E t \in Tasks : RfApp(t)
    \/ \E t \in Tasks : RfPopulate(t)
    \/ CacheTick

SpecCache == InitCache /\ [][NextCache]_vars

\* ------------------------------------------------------- proxy pool properties
GetProxyRunning == \E c \in Clients :
    cl[c].pc \in {"gp_save", "gp_sadd", "gp_smembers2", "gp_scan", "gp_incr",
                  "gp_decr", "gp_incr2", "gp_touch"}

\* report_usage calls on p whose pipeline is still to run
Reporting(p) == Cardinality({c \in Clients : cl[c].pc = "ru_exec" /\ cl[c].held = p})

\* C1: the in-flight counter of a proxy is never negative and, whenever no
\* get_proxy call is under way, equals the number of acquisitions of that
\* proxy whose report_usage has not yet run; it is back at zero (its value
\* before the acquisitions) once all of them are reported.
InFlightBalance ==
    \A p \in Pids :
        /\ inflight[p] >= 0
        /\ ~GetProxyRunning => inflight[p] = out[p] + Reporting(p)

\* two proxies were handed out, one of them has been reported and its counter
\* is back at zero while the other is still counted
InFlightBalanceWitness ==
    /\ ~GetProxyRunning
    /\ ncalls >= 2
    /\ \E p, q \in Pids :
         /\ rec[p].ewma /\ out[p] = 0 /\ Reporting(p) = 0 /\ inflight[p] = 0
         /\ out[q] = 1 /\ inflight[q] = 1

\* C4: a proxy is burned once: no second burn alert is published for it.
BurnedExactlyOnce == \A p \in Pids : alerts[p] <= 1

\* the store knows the proxy: its hash exists or a set holds its id
Known(p) == rec[p].any \/ p \in active \/ p \in burned

\* C11: every proxy id known to the store is in exactly one of the active set
\* and the burned set, never in both and never in neither.
ExactlyOneMembership ==
    \A p \in Pids : Known(p) => ((p \in active) # (p \in burned))

\* C12: a report_usage call goes on to burn exactly when the stored counters,
\* its own update included, have failures/requests > 30% and requests > 10.
BurnExactlyOnGuard ==
    [][\A c \in Clients :
         (cl[c].pc = "ru_fail" /\ cl'[c].pc # "ru_fail")
            => ((cl'[c].pc = "burn_srem")
                  <=> BurnGuard(rec[cl[c].held].failures, rec[cl[c].held].requests))]_vars

\* C13: reading health_score of a proxy with 0 <= success <= requests gives a
\* number between 0 and 100, and exactly 100 when requests = 0.
HealthScoreInRange ==
    hpc = "done" =>
        /\ ~hres.raised
        /\ 0 <= hres.scaled
        /\ hres.scaled <= 100 * hres.scale
        /\ (hin.requests = 0 => hres.scaled = 100 /\ hres.scale = 1)

\* C9: no get_proxy call ends in an exception.
GetProxyNeverRaises == ~raised

\* increments of p by concurrent get_proxy calls that found p at capacity and
\* are about to take them back
BeingUndone(p) == Cardinality({c \in Clients : cl[c].pc = "gp_decr" /\ cl[c].pick = p})

\* C10: when get_proxy returns a proxy, the in-flight counter of that proxy
\* (increments that are being undone left aside) is at most max_inflight
\* right after the call, also when the proxy was the second candidate.
ReturnedWithinCapacity ==
    [][\A c \in Clients :
         (cl[c].pc = "gp_touch" /\ cl'[c].pc = "idle")
             => inflight'[cl[c].pick] - BeingUndone(cl[c].pick) <= MaxInflight]_vars

\* ------------------------------------------------------ rate limiter properties
LevelIndex(level) == CHOOSE i \in 1..Len(Levels) : Levels[i] = level

\* the tiers before position i of the loop
TiersBefore(i) == {Levels[j] : j \in 1..(i - 1)}

AllTiers == TiersBefore(Len(Levels) + 1)

\* C2: the tiers are checked in the order global, route, user, ip, and a
\* request rejected at a tier has debited exactly the tiers before it: no
\* bucket of the rejecting tier or of a later tier is debited for it, and a
\* request gets past the limiter only after all four debits.
StrictOrderShortCircuit ==
    \A r \in Requests :
        /\ rq[r].pc = "check" => rq[r].debited = TiersBefore(rq[r].lvl)
        /\ \A i \in 1..Len(Levels) :
              rq[r].resp = "rate_limited_" \o Levels[i]
                  => rq[r].debited = TiersBefore(i)
        /\ rq[r].pc \in {"wait", "app"} \/ rq[r].resp = "ok"
              => rq[r].debited = AllTiers

\* two requests raced on a global bucket of capacity 1: one got through, the
\* other was rejected at the global tier
StrictOrderShortCircuitWitness ==
    /\ rcfg.cap["global"] = 1
    /\ \E r1, r2 \in Requests :
         /\ rq[r1].debited = AllTiers
         /\ rq[r2].resp = "rate_limited_global"
         /\ rq[r2].debited = {}
         /\ bucket[<<"u", 0>>].tokens = rcfg.cap["user"] - 1

\* C3: every bucket holds between 0 and capacity tokens, and what a bucket
\* has granted is covered by its capacity and its refills: no debit is lost
\* when requests race on a key.
BucketBounds ==
    \A k \in BucketKeys :
        /\ 0 <= bucket[k].tokens
        /\ bucket[k].tokens <= rcfg.cap[LevelOfKey(k)]
        /\ bucket[k].tokens + Cost * granted[k]
              <= rcfg.cap[LevelOfKey(k)] + RateOf(LevelOfKey(k)) * bucket[k].ts

\* two requests met on a bucket that held one token: it is empty, it
\* granted one of them and the other was denied
BucketBoundsWitness ==
    \E k \in BucketKeys :
        /\ bucket[k].tokens = 0
        /\ granted[k] = rcfg.cap[LevelOfKey(k)]
        /\ \E r \in Requests : rq[r].resp = "rate_limited_" \o LevelOfKey(k)

\* the requests a bucket of the burst can allow in the phase
Allowance ==
    IF tbphase = "burst" THEN tbcap ELSE Min(tbcap, tbwait \div TicksPerToken)

\* C14: from a full bucket of capacity C with no time passing exactly C
\* requests are allowed and the next is rejected; from the empty bucket after
\* t seconds exactly min(C, floor(t * rate)) more requests are allowed.
TokenBucketCount ==
    /\ tbn <= Allowance
    /\ (tbrej > 0 => tbn = Allowance)

\* a burst drained the bucket, one token's time passed, one more request was
\* allowed and the next one rejected
TokenBucketCountWitness ==
    /\ tbphase = "after"
    /\ tbwait \div TicksPerToken = 1
    /\ tbwait % TicksPerToken # 0
    /\ tbcap > 1
    /\ tbn = 1
    /\ tbrej > 0

\* C5: a request that arrives while the concurrency gauge is at or above
\* shed_threshold is rejected with admission_shed at once, is over, and
\* leaves every bucket as it was.
ShedBeforeLimiter ==
    [][\A r \in Requests :
         (rq[r].pc = "new" /\ rq'[r].pc # "new" /\ conc >= rcfg.shed)
             => /\ rq'[r].resp = "admission_shed"
                /\ rq'[r].pc = "done"
                /\ rq'[r].debited = {}
                /\ bucket' = bucket
                /\ granted' = granted]_vars

\* a request was shed while others, which did debit the buckets, were running
ShedBeforeLimiterWitness ==
    /\ conc >= rcfg.shed
    /\ \E r \in Requests :
         /\ rq[r].resp = "admission_shed"
         /\ rq[r].debited = {}
    /\ granted[<<"g", 0>>] = conc

\* ------------------------------------------------------------ cache properties
\* the slot has carried a request
Issued(q) == cq[q].pc # "idle" \/ cq[q].resp # NoResponse

Apart(a, b) == IF a >= b THEN a - b ELSE b - a

\* the age of the stored entry
EntryAge == now - centry.ts

\* the lookup of q ends in this step, having found body and metadata
LookupEnds(q) == cq[q].pc = "meta" /\ cq'[q].pc # "meta"

FoundEntry(q) == cq[q].found /\ Live(centry)

\* C6: of identical GET requests issued within default_ttl of one another at
\* most one invokes the handler, and all of them receive the same status,
\* content type and body.
HandlerOnceWithinTtl ==
    \A q1, q2 \in CacheClients :
        (q1 # q2 /\ Issued(q1) /\ Issued(q2)
            /\ Apart(cq[q1].t0, cq[q2].t0) <= DefaultTtl)
        => /\ ~(cq[q1].handled /\ cq[q2].handled)
           /\ (cq[q1].resp # NoResponse /\ cq[q2].resp # NoResponse)
                 => cq[q1].resp = cq[q2].resp

\* C7: a request that finds an entry with default_ttl < age <= swr_ttl is
\* answered with the stored response and creates exactly one refresh task; a
\* finished refresh renews the stored body and timestamp.
StaleServedRefreshedOnce ==
    [][/\ \A q \in CacheClients :
            (LookupEnds(q) /\ FoundEntry(q) /\ EntryAge > DefaultTtl /\ EntryAge <= SwrTtl)
                => /\ cq'[q].pc = "idle"
                   /\ cq'[q].resp = centry.resp
                   /\ nrf' = nrf + 1
       /\ \A t \in Tasks :
            (rf[t].pc = "populate" /\ rf'[t].pc = "done")
                => centry'.has /\ centry'.resp = rf[t].resp /\ centry'.ts = rf[t].ts]_vars

\* C8: a lookup is fresh, stale+refresh or miss by the age of the entry alone:
\* an entry older than swr_ttl is never served, an absent or too old entry
\* sends the request to the handler, and the request ends only after the
\* handler's status, content type and body are stored with expiry swr_ttl.
ClassifiedByAgeOnly ==
    [][\A q \in CacheClients :
         /\ (LookupEnds(q) /\ FoundEntry(q) /\ EntryAge <= DefaultTtl)
               => cq'[q].pc = "idle" /\ nrf' = nrf
         /\ (LookupEnds(q) /\ FoundEntry(q) /\ EntryAge > DefaultTtl /\ EntryAge <= SwrTtl)
               => cq'[q].pc = "idle" /\ nrf' = nrf + 1
         /\ (LookupEnds(q) /\ (~FoundEntry(q) \/ EntryAge > SwrTtl))
               => cq'[q].pc = "app"
         /\ (cq[q].pc = "app" /\ cq'[q].pc # "app") => cq'[q].pc = "populate"
         /\ (cq[q].pc = "populate" /\ cq'[q].pc # "populate")
               => /\ centry'.has
                  /\ centry'.resp = cq[q].resp
                  /\ centry'.exp = now + SwrTtl]_vars

\* ------------------------------------------------ rejections and the semaphore
\* the middleware answered r itself
Rejected(r) == rq[r].pc = "done" /\ rq[r].resp \notin {"ok", "error", "cancelled"}

Executing == {r \in Requests : rq[r].pc = "app"}

\* C18: the concurrency gauge equals the number of requests executing
\* downstream inside the semaphore, lies between 0 and max_concurrency, the
\* free slots are the rest, and with no request in progress the gauge is 0.
GaugeMatchesExecuting ==
    /\ conc = Cardinality(Executing)
    /\ 0 <= conc /\ conc <= rcfg.mc
    /\ sema = rcfg.mc - conc
    /\ (\A r \in Requests : rq[r].pc \in {"new", "done"}) => conc = 0

\* a downstream call ended in an exception, a waiter was cancelled, a third
\* request went through, and nothing is in progress
GaugeMatchesExecutingWitness ==
    /\ \E r1, r2, r3 \in Requests :
         /\ rq[r1].resp = "error"
         /\ rq[r2].resp = "cancelled"
         /\ rq[r3].resp = "ok"
    /\ conc = 0

\* the requests holding or waiting for a slot of the semaphore
Backlog == {r \in Requests : rq[r].pc \in {"wait", "app"}}

\* C19: the backlog at the semaphore is bounded by shed_threshold: a request
\* that arrives when shed_threshold requests hold or wait for a slot is
\* rejected with admission_shed and not queued.
BacklogBounded ==
    [][\A r \in Requests :
         (rq[r].pc = "new" /\ rq'[r].pc # "new" /\ Cardinality(Backlog) >= rcfg.shed)
             => rq'[r].resp = "admission_shed"]_vars

\* --------------------------------------------------------- get_or_set properties
\* what holds of a call that did not get the lock
LoserSafe ==
    \A g \in Callers :
        gs[g].lost =>
            /\ gs[g].polls <= LockExpiration
            /\ ~gs[g].wrote
            /\ gs[g].pc = "done" =>
                  /\ gs[g].ret # NoPayload
                  /\ gs[g].via \in {"cache", "loader"}
                  /\ gs[g].via = "loader" => gs[g].polls >= 1 /\ gnow >= gs[g].deadline

WinnerLate ==
    \E g \in Callers : gs[g].late \/ (gs[g].pc = "load" /\ gnow >= gs[g].lexp)

\* C17: when every lock winner's loader completes within lock_expiration,
\* loader is invoked once in total and all callers return the payload the
\* winner computed.
LoadedOnce ==
    ~WinnerLate =>
        /\ gloads <= 1
        /\ \A g1, g2 \in Callers :
              (gs[g1].pc = "done" /\ gs[g2].pc \in {"done", "rel_get", "rel_del"})
                  => gs[g1].ret = gs[g2].ret

\* ===================================================== the middleware chain
\* _rate_cache_startup: add EnhancedRateLimitMiddleware, then
\* EnhancedCacheMiddleware
ChStartup(o) ==
    /\ mboot = "init"
    /\ mboot' = o
    /\ mstack' = IF o = "installed"
                 THEN AddMiddleware(AddMiddleware(mstack, "RateLimit"), "Cache")
                 ELSE mstack
    /\ UNCHANGED <<mq, mresp, mcache, mtokens, mconc>>
    /\ UNCHANGED notChainVars

\* the layer a request is about to enter; past the last one is the router
Layer(r) == IF mq[r].at <= Len(mstack) THEN mstack[mq[r].at] ELSE "app"

\* an inbound request enters the outermost layer
ChArrive(r, m, k) ==
    /\ mboot \in {"installed", "skipped"}
    /\ mq[r].pc = "new"
    /\ mq' = [mq EXCEPT ![r] = [@ EXCEPT !.pc = "in", !.at = 1, !.method = m,
                                         !.shape = k]]
    /\ UNCHANGED <<mboot, mstack, mresp, mcache, mtokens, mconc>>
    /\ UNCHANGED notChainVars

ChPass(r) ==
    /\ mq[r].pc = "in"
    /\ Layer(r) \in PassThrough
    /\ mq' = [mq EXCEPT ![r].at = @ + 1]
    /\ UNCHANGED <<mboot, mstack, mresp, mcache, mtokens, mconc>>
    /\ UNCHANGED notChainVars

\* A response leaves the layer the request q is in and unwinds through the
\* layers outside of it: the limiter's finally block gives the gauge back, a
\* cache layer that forwarded the request stores what came back, and a
\* refresh task swallows the response.
Respond(r, q, src, body) ==
    /\ mq' = [mq EXCEPT ![r] = [q EXCEPT !.pc = "done", !.held = FALSE]]
    /\ mresp' = IF q.fill = "refresh" THEN mresp
                ELSE [mresp EXCEPT ![r] = [src |-> src, body |-> body,
                                          admitted |-> q.admitted,
                                          debited |-> q.debited,
                                          owner |-> Sender(r)]]
    /\ mcache' = IF q.fill # "none"
                 THEN [mcache EXCEPT ![CacheKeyOf(q.shape, CacheUserSeen(r))] =
                          [state |-> "fresh", body |-> body, owner |-> Sender(r)]]
                 ELSE mcache
    /\ mconc' = IF q.held THEN mconc - 1 ELSE mconc

\* EnhancedRateLimitMiddleware.__call__: admission check, the bucket tiers
\* (here one bucket stands for the four), then the call of the inner layer
ChRateLimit(r) ==
    /\ mq[r].pc = "in"
    /\ Layer(r) = "RateLimit"
    /\ IF mconc >= ChainShed
       THEN /\ Respond(r, mq[r], "reject", "limited")
            /\ UNCHANGED mtokens
       ELSE IF mtokens < 1
       THEN /\ Respond(r, [mq[r] EXCEPT !.admitted = TRUE], "reject", "limited")
            /\ UNCHANGED mtokens
       ELSE /\ mtokens' = mtokens - 1
            /\ mconc' = mconc + 1
            /\ mq' = [mq EXCEPT ![r] = [@ EXCEPT !.admitted = TRUE, !.debited = TRUE,
                                                 !.held = TRUE, !.at = @ + 1]]
            /\ UNCHANGED <<mresp, mcache>>
    /\ UNCHANGED <<mboot, mstack>>
    /\ UNCHANGED notChainVars

\* EnhancedCacheMiddleware.__call__
ChCache(r) ==
    /\ mq[r].pc = "in"
    /\ Layer(r) = "Cache"
    /\ LET q == mq[r]
           e == mcache[CacheKeyOf(q.shape, CacheUserSeen(r))]
       IN  IF q.method # "GET"
           THEN /\ mq' = [mq EXCEPT ![r].at = @ + 1]
                /\ UNCHANGED <<mresp, mcache, mconc>>
           ELSE IF e.state # "none"
           THEN /\ mresp' = [mresp EXCEPT ![r] = [src |-> "cache", body |-> e.body,
                                                  admitted |-> q.admitted,
                                                  debited |-> q.debited,
                                                  owner |-> e.owner]]
                /\ mq' = [mq EXCEPT ![r] =
                            IF e.state = "stale"
                            THEN [q EXCEPT !.fill = "refresh", !.held = FALSE,
                                           !.at = @ + 1]
                            ELSE [q EXCEPT !.pc = "done", !.held = FALSE]]
                /\ mconc' = IF q.held THEN mconc - 1 ELSE mconc
                /\ UNCHANGED mcache
           ELSE /\ mq' = [mq EXCEPT ![r] = [q EXCEPT !.fill = "forward", !.at = @ + 1]]
                /\ UNCHANGED <<mresp, mcache, mconc>>
    /\ UNCHANGED <<mboot, mstack, mtokens>>
    /\ UNCHANGED notChainVars

\* the route handler answers
ChApp(r) ==
    /\ mq[r].pc = "in"
    /\ Layer(r) = "app"
    /\ Respond(r, mq[r], "app", "ok")
    /\ UNCHANGED <<mboot, mstack, mtokens>>
    /\ UNCHANGED notChainVars

\* time passes: a fresh entry gets older than default_ttl, a stale one
\* reaches swr_ttl and expires
ChAge(k) ==
    /\ mcache[k].state # "none"
    /\ mcache' = [mcache EXCEPT ![k] = IF @.state = "fresh"
                                       THEN [@ EXCEPT !.state = "stale"]
                                       ELSE NoChainEntry]
    /\ UNCHANGED <<mboot, mstack, mq, mresp, mtokens, mconc>>
    /\ UNCHANGED notChainVars

\* time passes: the bucket refills
ChRefill ==
    /\ mtokens < ChainCapacity
    /\ mtokens' = mtokens + 1
    /\ UNCHANGED <<mboot, mstack, mq, mresp, mcache, mconc>>
    /\ UNCHANGED notChainVars

InitChain ==
    /\ WinQuiet
    /\ LatQuiet
    /\ MonQuiet
    /\ CostQuiet
    /\ RotQuiet
    /\ EwmaQuiet
    /\ ClientQuiet
    /\ LoopQuiet
    /\ SelQuiet
    /\ GsQuiet
    /\ TbQuiet
    /\ ProxyQuiet
    /\ RateQuiet
    /\ CacheQuiet
    /\ HealthQuiet
    /\ ChainQuiet

NextChain ==
    \/ \E o \in BootOutcomes : ChStartup(o)
    \/ \E r \in ChainRequests, m \in Methods, k \in Shapes : ChArrive(r, m, k)
    \/ \E r \in ChainRequests : ChPass(r)
    \/ \E r \in ChainRequests : ChRateLimit(r)
    \/ \E r \in ChainRequests : ChCache(r)
    \/ \E r \in ChainRequests : ChApp(r)
    \/ \E k \in ChainKeys : ChAge(k)
    \/ ChRefill

SpecChain == InitChain /\ [][NextChain]_vars

Position(stack, m) == CHOOSE i \in 1..Len(stack) : stack[i] = m

\* C20: once the startup handler has installed the limiter and the cache, the
\* limiter (with its admission check) is a layer outside the cache, and every
\* response that was served from the cache, fresh or stale, went to a request
\* that had been admitted and had debited the buckets.
CacheBehindLimiter ==
    /\ mboot = "installed" => Position(mstack, "RateLimit") < Position(mstack, "Cache")
    /\ \A r \in ChainRequests :
          mresp[r].src = "cache" => mresp[r].admitted /\ mresp[r].debited

\* C22: requests of two distinct users are checked against two distinct
\* user-tier buckets, and a request is rejected with rate_limited_user only
\* when a request of the same user has debited the user tier before it: what
\* other users spend never exhausts a user's bucket.
UserTierPerUser ==
    /\ \A r1, r2 \in Requests :
          (rq[r1].pc # "new" /\ rq[r2].pc # "new" /\ Sender(r1) # Sender(r2))
              => KeyOf("user", rq[r1].route, UserSeen(r1), rq[r1].ip)
                     # KeyOf("user", rq[r2].route, UserSeen(r2), rq[r2].ip)
    /\ \A r \in Requests :
          rq[r].resp = "rate_limited_user"
              => \E r2 \in Requests \ {r} :
                    Sender(r2) = Sender(r) /\ "user" \in rq[r2].debited

\* C21: two GET requests sent by different users (or one without
\* credentials and one with) are looked up under different cache keys, and a
\* response served from the cache was stored by a request of the user it is
\* served to.
CacheKeyBindsUser ==
    /\ \A r1, r2 \in ChainRequests :
          (mq[r1].pc # "new" /\ mq[r2].pc # "new" /\ Sender(r1) # Sender(r2))
              => CacheKeyOf(mq[r1].shape, CacheUserSeen(r1))
                     # CacheKeyOf(mq[r2].shape, CacheUserSeen(r2))
    /\ \A r \in ChainRequests :
          mresp[r].src = "cache" => mresp[r].owner = Sender(r)

\* ============================================ get_proxy: the selection
\* a filter that looks at the type alone
MatchesTypeOnly(o, want) == want.type = "any" \/ o.ptype = want.type

\* the requirements filter of the scoring loop on type and location
Matches(o, want) ==
    /\ want.type = "any" \/ o.ptype = want.type
    /\ want.location = "any" \/ o.location = want.location

\* what the scoring loop appends for the ids it is given: the record is
\* read, turned into a Proxy, filtered and scored
Scored(ids, want) ==
    { [key |-> k, obj |-> FromDict(sstore[k]), score |-> HealthScore(FromDict(sstore[k]))]
      : k \in {j \in ids \cap DOMAIN sstore :
                 /\ Matches(FromDict(sstore[j]), want)
                 /\ HealthScore(FromDict(sstore[j])) >= MinHealthScore} }

\* random.choices over all candidates when exploring with more than one
\* candidate, else the head of the list sorted by score
SelPickSet(cs, explore) ==
    IF explore /\ Cardinality(cs) > 1 THEN cs
    ELSE {c \in cs : \A d \in cs : c.score >= d.score}

\* smembers(active), the scoring loop and the pick; no provider is
\* configured, so an empty active set stays empty
SelScan ==
    /\ spc = "idle"
    /\ LET cs == Scored(sactive, swant) IN
         IF cs = {}
         THEN /\ spc' = "none"
              /\ UNCHANGED <<scands, spick, sexplored>>
         ELSE \E explore \in BOOLEAN : \E c \in SelPickSet(cs, explore) :
                /\ scands' = cs
                /\ spick' = c
                /\ sexplored' = (explore /\ Cardinality(cs) > 1)
                /\ spc' = "incr"
    /\ UNCHANGED <<sstore, sactive, sinflight, swant, sretried>>
    /\ UNCHANGED notSelVars

\* incr(inflight_key(proxy_id(pick))); over max_inflight: decr, drop the
\* pick, random.choices among the others and incr
SelIncr ==
    /\ spc = "incr"
    /\ LET pid == ProxyIdOf(spick.obj)
           n == sinflight[pid] + 1
           rest == scands \ {spick}
       IN
         IF ~OverCapacity(n, MaxInflight)
         THEN /\ sinflight' = [sinflight EXCEPT ![pid] = n]
              /\ spc' = "touch"
              /\ UNCHANGED <<scands, spick, sretried>>
         ELSE IF rest = {}
         THEN /\ spc' = "none"
              /\ UNCHANGED <<sinflight, scands, spick, sretried>>
         ELSE \E c \in rest :
                /\ sinflight' = [sinflight EXCEPT ![ProxyIdOf(c.obj)] = @ + 1]
                /\ scands' = rest
                /\ spick' = c
                /\ sretried' = TRUE
                /\ spc' = "touch"
    /\ UNCHANGED <<sstore, sactive, swant, sexplored>>
    /\ UNCHANGED notSelVars

\* hset(proxy_detail_key(pid), last_used) and return pick
SelTouch ==
    /\ spc = "touch"
    /\ sstore' = [sstore EXCEPT ![ProxyIdOf(spick.obj)].lastUsed = "z"]
    /\ spc' = "returned"
    /\ UNCHANGED <<sactive, sinflight, swant, scands, spick, sexplored, sretried>>
    /\ UNCHANGED notSelVars

\* A store as provisioning, tests and earlier calls can have left it: every
\* record was saved by _save_proxy under the id of the object it was made
\* from; some ids are active, some records are gone, some proxies are at
\* capacity.
InitSelect ==
    /\ WinQuiet
    /\ LatQuiet
    /\ MonQuiet
    /\ CostQuiet
    /\ RotQuiet
    /\ EwmaQuiet
    /\ ClientQuiet
    /\ LoopQuiet
    /\ GsQuiet
    /\ TbQuiet
    /\ ProxyQuiet
    /\ RateQuiet
    /\ CacheQuiet
    /\ HealthQuiet
    /\ ChainQuiet
    /\ \E built \in [Slots -> UNION {BuiltProxies(i) : i \in Slots}] :
       \E use \in [Slots -> Usages] :
       \E stored \in SUBSET Slots : \E member \in SUBSET Slots :
       \E full \in SUBSET Slots :
         /\ \A i \in Slots : built[i] \in BuiltProxies(i)
         /\ sstore = [k \in {ProxyIdOf(built[i]) : i \in stored} |->
                        LET i == CHOOSE j \in stored : ProxyIdOf(built[j]) = k IN
                          ToDict([built[i] EXCEPT !.requests = use[i][1],
                                                  !.success = use[i][2]])]
         /\ sactive = {ProxyIdOf(built[i]) : i \in member}
         /\ sinflight = [k \in {ProxyIdOf(built[i]) : i \in Slots} |->
                           IF \E i \in full : ProxyIdOf(built[i]) = k
                           THEN MaxInflight ELSE 0]
    /\ swant \in Requirements
    /\ spc = "idle"
    /\ scands = {}
    /\ spick = NoPick
    /\ sexplored = FALSE
    /\ sretried = FALSE

NextSelect ==
    \/ SelScan
    \/ SelIncr
    \/ SelTouch

SpecSelect == InitSelect /\ [][NextSelect]_vars

BurnedStaysOut ==
    [][/\ \A p \in BurnCompleted : p \in burned /\ p \notin active /\ p \notin active'
       /\ \A c \in Clients :
             (cl[c].pc = "gp_touch" /\ cl'[c].pc = "idle") => cl[c].pick \notin cl[c].gone
       /\ \A c \in Clients :
             (cl[c].pc = "ru_exec" /\ cl'[c].pc # "ru_exec"
                 /\ cl[c].held \in BurnCompleted)
                => /\ rec'[cl[c].held].requests = rec[cl[c].held].requests + 1
                   /\ inflight'[cl[c].held] = inflight[cl[c].held] - 1
                   /\ active' = active /\ burned' = burned]_vars

\* C24: a get_proxy call that started after a burn was complete is about to
\* return another proxy, and the burned proxy has had a report counted
\* beyond the one that burned it
BurnedStaysOutWitness ==
    /\ \E c \in Clients : cl[c].gone # {} /\ cl[c].pc = "gp_touch"
    /\ \E p \in BurnCompleted : rec[p].requests > BurnMinRequests + 1

\* C26: in every record failures <= requests and requests = success +
\* failures, whatever the interleaving of the report_usage calls on it.
CountersConsistent ==
    \A p \in Pids :
        /\ rec[p].failures <= rec[p].requests
        /\ rec[p].requests = rec[p].success + rec[p].failures

\* C26: two report_usage calls on one proxy were under way together and the
\* record has counted a success and a failure beyond those it started with
CountersConsistentWitness ==
    \E p \in Pids :
        /\ rec[p].requests >= WarmRec.requests + 2
        /\ rec[p].success > WarmRec.success
        /\ rec[p].failures > WarmRec.failures
        /\ \E c1, c2 \in Clients :
              /\ c1 # c2
              /\ cl[c1].held = p /\ cl[c1].pc \in {"ru_req", "ru_fail"}
              /\ cl[c2].held = p /\ cl[c2].pc \in {"ru_req", "ru_fail"}

\* ===================================================== the background loops
\* a handler clause that lets everything through
CaughtNothing(e) == FALSE

\* `except Exception as e`: every error class but CancelledError, which
\* derives from BaseException
Caught(e) == e # Cancelled

\* what an exception e does to a loop that is inside its try block
Thrown(q, e) ==
    IF Caught(e)
    THEN [q EXCEPT !.pc = "sleep", !.step = 0, !.logged = @ + 1]
    ELSE [q EXCEPT !.pc = "ended", !.step = 0,
                   !.ended = IF e = Cancelled THEN "cancelled" ELSE "failed"]

\* asyncio.sleep is over: the body of the iteration begins
LoopWake(l) ==
    /\ lp[l].pc = "sleep"
    /\ lp[l].ticks < MaxTicks
    /\ lp' = [lp EXCEPT ![l] = [@ EXCEPT !.pc = "run", !.step = 1, !.ticks = @ + 1]]
    /\ UNCHANGED notLoopVars

\* one awaited call of the body returns; after the last one the loop is
\* back at its sleep
LoopStep(l) ==
    /\ lp[l].pc = "run"
    /\ lp' = [lp EXCEPT ![l] = IF @.step < BodySteps
                               THEN [@ EXCEPT !.step = @ + 1]
                               ELSE [@ EXCEPT !.pc = "sleep", !.step = 0]]
    /\ UNCHANGED notLoopVars

\* a call of the body raises
LoopRaise(l, e) ==
    /\ lp[l].pc = "run"
    /\ lp' = [lp EXCEPT ![l] = Thrown([@ EXCEPT !.failures = @ + 1], e)]
    /\ UNCHANGED notLoopVars

\* the task is cancelled from outside while it awaits
LoopCancel(l) ==
    /\ lp[l].pc \in {"sleep", "run"}
    /\ lp' = [lp EXCEPT ![l] = Thrown(@, Cancelled)]
    /\ UNCHANGED notLoopVars

InitLoops ==
    /\ WinQuiet
    /\ LatQuiet
    /\ MonQuiet
    /\ CostQuiet
    /\ RotQuiet
    /\ EwmaQuiet
    /\ ClientQuiet
    /\ GsQuiet
    /\ TbQuiet
    /\ ProxyQuiet
    /\ RateQuiet
    /\ CacheQuiet
    /\ HealthQuiet
    /\ ChainQuiet
    /\ SelQuiet
    /\ lp = [l \in LoopNames |-> NewLoop]

NextLoops ==
    \/ \E l \in LoopNames : LoopWake(l)
    \/ \E l \in LoopNames : LoopStep(l)
    \/ \E l \in LoopNames : \E e \in BodyErrors : LoopRaise(l, e)
    \/ \E l \in LoopNames : LoopCancel(l)

SpecLoops == InitLoops /\ [][NextLoops]_vars

\* C25: an iteration of a background loop that raises is logged and leaves
\* the loop at the sleep before its next iteration; no number of failed
\* iterations ends a loop.
LoopsOutliveFailures ==
    [][\A l \in LoopNames :
          /\ lp'[l].ended # "failed"
          /\ lp'[l].failures > lp[l].failures
                => /\ lp'[l].pc = "sleep"
                   /\ lp'[l].logged = lp[l].logged + 1
                   /\ lp'[l].ended = "no"]_vars

\* C25: the health monitor has failed twice in a row and is running its third
\* iteration, while the cost monitor has failed as well and waits for its
\* next tick
LoopsOutliveFailuresWitness ==
    /\ lp["health"].failures = 2 /\ lp["health"].ticks = 3 /\ lp["health"].pc = "run"
    /\ lp["cost"].failures >= 1 /\ lp["cost"].pc = "sleep" /\ lp["cost"].ticks < MaxTicks

\* ==================================================== ProxiedClient.request
\* proxy = await get_proxy(...): a proxy with its in-flight counter
\* incremented, or None and `raise Exception("No proxy available")`
XGet(r) ==
    /\ xq[r].pc = "idle"
    /\ \E got \in BOOLEAN :
         IF got
         THEN /\ xinflight' = xinflight + 1
              /\ xq' = [xq EXCEPT ![r] = [@ EXCEPT !.pc = "have", !.got = TRUE]]
         ELSE /\ xq' = [xq EXCEPT ![r] = [@ EXCEPT !.pc = "done", !.exit = "no proxy"]]
              /\ UNCHANGED xinflight
    /\ UNCHANGED xhttpx
    /\ UNCHANGED notClientVars

\* the proxies mapping and start_time, then `if httpx is None: raise
\* ImportError`, which is before the try statement
XCheck(r) ==
    /\ xq[r].pc = "have"
    /\ xq' = [xq EXCEPT ![r] = IF xhttpx THEN [@ EXCEPT !.pc = "try"]
                               ELSE [@ EXCEPT !.pc = "done", !.exit = "ImportError"]]
    /\ UNCHANGED <<xinflight, xhttpx>>
    /\ UNCHANGED notClientVars

\* the try block: client.request and raise_for_status; `except Exception`
\* keeps str(e) and re-raises
XRequest(r, o) ==
    /\ xq[r].pc = "try"
    /\ xq' = [xq EXCEPT ![r] =
                IF o = "ok"
                THEN [@ EXCEPT !.pc = "finally", !.outcome = o, !.success = TRUE]
                ELSE [@ EXCEPT !.pc = "finally", !.outcome = o, !.error = ErrorText(o)]]
    /\ UNCHANGED <<xinflight, xhttpx>>
    /\ UNCHANGED notClientVars

\* the request is cancelled inside the try block: CancelledError passes
\* `except Exception`, the finally clause runs
XCancel(r) ==
    /\ xq[r].pc = "try"
    /\ xq' = [xq EXCEPT ![r] = [@ EXCEPT !.pc = "finally", !.outcome = "cancelled"]]
    /\ UNCHANGED <<xinflight, xhttpx>>
    /\ UNCHANGED notClientVars

\* await report_usage(proxy, success, response_time, bandwidth_mb, error)
Reported(q) ==
    [q EXCEPT !.reports = @ + 1, !.rsuccess = q.success, !.rerror = q.error]

\* the finally clause, then the return or the re-raise; report_usage gives
\* the in-flight counter back
XFinally(r) ==
    /\ xq[r].pc = "finally"
    /\ xq' = [xq EXCEPT ![r] = [Reported(@) EXCEPT !.pc = "done", !.exit = xq[r].outcome]]
    /\ xinflight' = xinflight - (xq'[r].reports - xq[r].reports)
    /\ UNCHANGED xhttpx
    /\ UNCHANGED notClientVars

\* manager.py imports httpx inside try / except ImportError and goes on with
\* httpx = None when the package is missing
InitClient ==
    /\ WinQuiet
    /\ LatQuiet
    /\ MonQuiet
    /\ CostQuiet
    /\ RotQuiet
    /\ EwmaQuiet
    /\ GsQuiet
    /\ TbQuiet
    /\ ProxyQuiet
    /\ RateQuiet
    /\ CacheQuiet
    /\ HealthQuiet
    /\ ChainQuiet
    /\ SelQuiet
    /\ LoopQuiet
    /\ xq = [r \in Calls |-> NewCall]
    /\ xinflight = 0
    /\ xhttpx \in BOOLEAN

NextClient ==
    \/ \E r \in Calls : XGet(r)
    \/ \E r \in Calls : XCheck(r)
    \/ \E r \in Calls : \E o \in Outcomes : XRequest(r, o)
    \/ \E r \in Calls : XCancel(r)
    \/ \E r \in Calls : XFinally(r)

SpecClient == InitClient /\ [][NextClient]_vars

\* C27: a request that was given a proxy has, once it is over, called
\* report_usage exactly once, so the in-flight counter is back to the number
\* of requests still under way; and a request that failed with an HTTP
\* error status, a network exception or a timeout is reported with
\* success = false and the text of its exception.
ReportedOnEveryExit ==
    /\ \A r \in Calls : (xq[r].pc = "done" /\ xq[r].got) => xq[r].reports = 1
    /\ xinflight = Cardinality({r \in Calls : xq[r].pc \in {"have", "try", "finally"}})
    /\ \A r \in Calls :
          (xq[r].pc = "done" /\ xq[r].exit \in Outcomes \ {"ok"})
              => ~xq[r].rsuccess /\ xq[r].rerror = ErrorText(xq[r].exit)

\* ==================================================== report_usage: the record
\* report_usage(proxy, success, response_time): the pipeline is queued, then
\* cur = await hget(key, "response_time_ewma_ms")
EwRead(c, s, sample) ==
    /\ ecl[c].pc = "idle"
    /\ ecl' = [ecl EXCEPT ![c] = [pc |-> "read", sample |-> sample, succ |-> s,
                                  cur |-> erec.ewma]]
    /\ UNCHANGED <<erec, estart>>
    /\ UNCHANGED notEwmaVars

\* ewma = float(cur) if cur is not None else response_time, then the
\* average; the record after hincrby requests, hincrby success | failures
\* and hset response_time_ewma_ms
Recorded(r, s, sample, cur) ==
    [r EXCEPT !.requests = @ + 1,
              !.success = IF s THEN @ + 1 ELSE @,
              !.failures = IF s THEN @ ELSE @ + 1,
              !.ewma = <<Ewma(IF cur = <<>> THEN sample ELSE cur[1], sample)>>]

\* await pipe.execute(): one MULTI/EXEC transaction with the value computed
\* from what hget returned
EwExec(c) ==
    /\ ecl[c].pc = "read"
    /\ erec' = Recorded(erec, ecl[c].succ, ecl[c].sample, ecl[c].cur)
    /\ ecl' = [ecl EXCEPT ![c].pc = "done"]
    /\ UNCHANGED estart
    /\ UNCHANGED notEwmaVars

InitEwma ==
    /\ WinQuiet
    /\ LatQuiet
    /\ MonQuiet
    /\ CostQuiet
    /\ RotQuiet
    /\ GsQuiet
    /\ TbQuiet
    /\ ProxyQuiet
    /\ RateQuiet
    /\ CacheQuiet
    /\ HealthQuiet
    /\ ChainQuiet
    /\ SelQuiet
    /\ LoopQuiet
    /\ ClientQuiet
    /\ estart \in {FreshRecord, UsedRecord}
    /\ erec = estart
    /\ ecl = [c \in Reporters |-> NewReport]

NextEwma ==
    \/ \E c \in Reporters : \E s \in BOOLEAN : \E sample \in Samples : EwRead(c, s, sample)
    \/ \E c \in Reporters : EwExec(c)

SpecEwma == InitEwma /\ [][NextEwma]_vars

\* the calls of `order` applied to r one after another, each reading the
\* record the one before it left
RECURSIVE OneAfterAnother(_, _)
OneAfterAnother(r, order) ==
    IF order = <<>> THEN r
    ELSE OneAfterAnother(Recorded(r, ecl[Head(order)].succ, ecl[Head(order)].sample, r.ewma),
                         Tail(order))

Orders(S) == {o \in [1..Cardinality(S) -> S] : \A i, j \in DOMAIN o : i # j => o[i] # o[j]}

\* C28: whenever no report_usage call is between its read and its
\* execute, the record equals the result of applying the finished calls one
\* after another in some order: no counter increment and no response-time
\* sample is lost.
ReportsSerialize ==
    LET finished == {c \in Reporters : ecl[c].pc = "done"}
    IN  (\A c \in Reporters : ecl[c].pc # "read")
            => \E o \in Orders(finished) : erec = OneAfterAnother(estart, o)

\* the counters alone do serialize: they are incremented inside the transaction
CountersSerialize ==
    LET finished == {c \in Reporters : ecl[c].pc = "done"}
    IN  (\A c \in Reporters : ecl[c].pc # "read")
            => \E o \in Orders(finished) :
                  [OneAfterAnother(estart, o) EXCEPT !.ewma = <<>>] = [erec EXCEPT !.ewma = <<>>]

\* ==================================================== rotation scheduler
\* A stored hash: `data` are the fields Proxy.to_dict wrote and get_proxy /
\* report_usage updated, `ewmaField` says that report_usage has added
\* response_time_ewma_ms; `slot` and `usedAt` keep, for the properties, which
\* proxy the hash describes and when it was last handed out.
StoredAs(o, i) == [data |-> ToDict(o), ewmaField |-> FALSE, slot |-> i, usedAt |-> Never]

\* get_proxy hands k out: hset(last_used = now_utc_iso())
RotUse(k) ==
    /\ k \in tactive \cap DOMAIN tstore
    /\ tstore' = [tstore EXCEPT ![k] = [@ EXCEPT !.data.lastUsed = "z", !.usedAt = tnow]]
    /\ UNCHANGED <<tactive, tnow, tlast, tpc, ttodo, tmet, tzparse>>
    /\ UNCHANGED notRotVars

\* report_usage on k: the counters, last_used and response_time_ewma_ms
RotReport(k, s) ==
    /\ k \in DOMAIN tstore
    /\ tstore[k].data.requests < MaxReports
    /\ tstore' = [tstore EXCEPT ![k] =
                    [@ EXCEPT !.data.requests = @ + 1,
                              !.data.success = IF s THEN @ + 1 ELSE @,
                              !.data.lastUsed = "z",
                              !.ewmaField = TRUE,
                              !.usedAt = tnow]]
    /\ UNCHANGED <<tactive, tnow, tlast, tpc, ttodo, tmet, tzparse>>
    /\ UNCHANGED notRotVars

\* five minutes pass; the sleep of the scheduler ends when it is due
RotTime ==
    /\ tnow < MaxRotTime
    /\ tpc = "sleep" => tnow < tlast + RotationPeriod
    /\ tnow' = tnow + 1
    /\ UNCHANGED <<tstore, tactive, tlast, tpc, ttodo, tmet, tzparse>>
    /\ UNCHANGED notRotVars

\* sleep(600) is over: smembers(active)
RotWake ==
    /\ tpc = "sleep"
    /\ tnow >= tlast + RotationPeriod
    /\ tpc' = "scan"
    /\ ttodo' = tactive
    /\ tmet' = {}
    /\ UNCHANGED <<tstore, tactive, tnow, tlast, tzparse>>
    /\ UNCHANGED notRotVars

\* a sticky-session proxy that was handed out more than fifteen minutes ago
IdleSticky(h) ==
    /\ h.data.sticky # ""
    /\ h.usedAt # Never
    /\ tnow - h.usedAt > StickyTtl

\* Proxy.from_dict raises: cls(**data) gets response_time_ewma_ms, which is
\* no field of the dataclass, or datetime.fromisoformat of this build does not
\* read the "...Z" that now_utc_iso writes
FromDictFails(h) == h.ewmaField \/ (h.data.lastUsed = "z" /\ ~tzparse)

\* datetime.now() - proxy.last_used raises TypeError: now() is naive, a
\* last_used parsed from "...Z" is aware
AgeFails(o) == o.lastUsed = "z"

\* one turn of `for pid in active_proxies`, taken in the order of the set
RotVisit(k) ==
    /\ tpc = "scan"
    /\ k \in ttodo
    /\ tmet' = IF k \in DOMAIN tstore /\ IdleSticky(tstore[k])
               THEN tmet \cup {[slot |-> tstore[k].slot, sticky |-> tstore[k].data.sticky,
                                username |-> tstore[k].data.username]}
               ELSE tmet
    /\ IF k \notin DOMAIN tstore
       THEN \* if not proxy_data: continue
            /\ ttodo' = ttodo \ {k}
            /\ UNCHANGED <<tstore, tpc, tlast>>
       ELSE IF FromDictFails(tstore[k])
       THEN \* except Exception: logger.error, and back to the sleep
            /\ ttodo' = {}
            /\ tpc' = "sleep"
            /\ tlast' = tnow
            /\ UNCHANGED tstore
       ELSE LET proxy == FromDict(tstore[k].data) IN
            IF ~(OrElse(proxy.sticky, "") # "" /\ proxy.lastUsed # None)
            THEN /\ ttodo' = ttodo \ {k}
                 /\ UNCHANGED <<tstore, tpc, tlast>>
            ELSE IF AgeFails(proxy)
            THEN /\ ttodo' = {}
                 /\ tpc' = "sleep"
                 /\ tlast' = tnow
                 /\ UNCHANGED tstore
            ELSE IF tnow - tstore[k].usedAt > StickyTtl /\ proxy.provider \in Providers
            THEN \* rotate_ip, then _save_proxy under proxy_id of the result
                 \E tail \in Tails :
                   LET rotated == RotateIp(proxy, NewSession(tnow, tail))
                       id == ProxyIdOf(rotated)
                   IN /\ tstore' = [j \in DOMAIN tstore \cup {id} |->
                                      IF j = id
                                      THEN [StoredAs(rotated, tstore[k].slot)
                                              EXCEPT !.usedAt = tstore[k].usedAt]
                                      ELSE tstore[j]]
                      /\ ttodo' = ttodo \ {k}
                      /\ UNCHANGED <<tpc, tlast>>
            ELSE /\ ttodo' = ttodo \ {k}
                 /\ UNCHANGED <<tstore, tpc, tlast>>
    /\ UNCHANGED <<tactive, tnow, tzparse>>
    /\ UNCHANGED notRotVars

\* the for loop is through: back to the sleep
RotEnd ==
    /\ tpc = "scan"
    /\ ttodo = {}
    /\ tpc' = "sleep"
    /\ tlast' = tnow
    /\ UNCHANGED <<tstore, tactive, tnow, ttodo, tmet, tzparse>>
    /\ UNCHANGED notRotVars

\* _provision_proxies has saved one proxy of a provider per slot and added its id to the
\* active set; datetime.fromisoformat reads "...Z" from Python 3.11 on
InitRotate ==
    /\ WinQuiet
    /\ LatQuiet
    /\ MonQuiet
    /\ CostQuiet
    /\ GsQuiet
    /\ TbQuiet
    /\ ProxyQuiet
    /\ RateQuiet
    /\ CacheQuiet
    /\ HealthQuiet
    /\ ChainQuiet
    /\ SelQuiet
    /\ LoopQuiet
    /\ ClientQuiet
    /\ EwmaQuiet
    /\ \E built \in [Slots -> UNION {BuiltProxies(i) : i \in Slots}] :
         /\ \A i \in Slots : built[i] \in BuiltProxies(i) /\ built[i].provider \in Providers
         /\ tstore = [k \in {ProxyIdOf(built[i]) : i \in Slots} |->
                        LET i == CHOOSE j \in Slots : ProxyIdOf(built[j]) = k IN
                          StoredAs(built[i], i)]
         /\ tactive = {ProxyIdOf(built[i]) : i \in Slots}
    /\ tnow = 0
    /\ tlast = 0
    /\ tpc = "sleep"
    /\ ttodo = {}
    /\ tmet = {}
    /\ tzparse \in BOOLEAN

NextRotate ==
    \/ \E k \in DOMAIN tstore : RotUse(k)
    \/ \E k \in DOMAIN tstore : \E s \in BOOLEAN : RotReport(k, s)
    \/ RotTime
    \/ RotWake
    \/ \E k \in ttodo : RotVisit(k)
    \/ RotEnd

SpecRotate == InitRotate /\ [][NextRotate]_vars

\* the active records that describe the proxy of slot i
ActiveRecordsOf(i) == {j \in tactive \cap DOMAIN tstore : tstore[j].slot = i}

\* C29: when a pass of the rotation scheduler that met an idle
\* sticky-session proxy is over, the active set references exactly one
\* record of that proxy, the record carries a new session id and new
\* credentials and is stored under its own proxy_id, so that get_proxy can
\* select it, and every record of the store is referenced by the active set
\* (nothing is burned here).
RotationInPlace ==
    (tpc = "sleep" /\ tmet # {}) =>
        /\ \A m \in tmet :
              /\ Cardinality(ActiveRecordsOf(m.slot)) = 1
              /\ \A j \in ActiveRecordsOf(m.slot) :
                    /\ tstore[j].data.sticky # m.sticky
                    /\ tstore[j].data.username # m.username
                    /\ ProxyIdOf(FromDict(tstore[j].data)) = j
        /\ DOMAIN tstore \subseteq tactive

\* ==================================================== cost monitor
\* the metrics part of report_usage for a proxy of `provider` that moved gb:
\* proxy_cost_total.labels(provider).inc(_calculate_cost(proxy, bandwidth_mb)).
\* self.cost_tracker is not written, here or anywhere else.
CostReport(provider, gb) ==
    /\ kreports < MaxCostReports
    /\ LET cost == CalculateCost(TypeOf(provider), gb) IN
         /\ kcounter' = [kcounter EXCEPT ![provider] = @ + cost]
         /\ khour' = khour + cost
    /\ kreports' = kreports + 1
    /\ UNCHANGED <<ktracker, kdaily, kalerts, kticks, klast>>
    /\ UNCHANGED notCostVars

RECURSIVE TotalOf(_, _)
TotalOf(f, S) ==
    IF S = {} THEN 0
    ELSE LET p == CHOOSE q \in S : TRUE IN f[p] + TotalOf(f, S \ {p})

\* one pass of _cost_monitor after sleep(3600): the sum of
\* self.cost_tracker, clear(), the daily total read, increased and set, and
\* the alert when the sum is over the threshold
CostTick ==
    /\ kticks < MaxCostTicks
    /\ LET total_cost == TotalOf(ktracker, Providers) IN
         /\ ktracker' = [p \in Providers |-> 0]
         /\ kdaily' = kdaily + total_cost
         /\ kalerts' = IF total_cost > AlertThreshold THEN kalerts + 1 ELSE kalerts
         /\ klast' = [hour |-> khour, alerted |-> total_cost > AlertThreshold,
                      added |-> total_cost]
    /\ khour' = 0
    /\ kreports' = 0
    /\ kticks' = kticks + 1
    /\ UNCHANGED kcounter
    /\ UNCHANGED notCostVars

InitCost ==
    /\ WinQuiet
    /\ LatQuiet
    /\ MonQuiet
    /\ GsQuiet
    /\ TbQuiet
    /\ ProxyQuiet
    /\ RateQuiet
    /\ CacheQuiet
    /\ HealthQuiet
    /\ ChainQuiet
    /\ SelQuiet
    /\ LoopQuiet
    /\ ClientQuiet
    /\ EwmaQuiet
    /\ RotQuiet
    /\ kcounter = [p \in Providers |-> 0]
    /\ ktracker = [p \in Providers |-> 0]
    /\ khour = 0
    /\ kreports = 0
    /\ kdaily = 0
    /\ kalerts = 0
    /\ kticks = 0
    /\ klast = NoTick

NextCost ==
    \/ \E provider \in Providers : \E gb \in 0..MaxGb : CostReport(provider, gb)
    \/ CostTick

SpecCost == InitCost /\ [][NextCost]_vars

\* C30: when the cost of the report_usage calls of an hour is over the
\* alert threshold, the tick of the cost monitor that ends the hour
\* publishes a high-cost alert and adds the total of that hour to the daily
\* total.
HighCostAlerts ==
    klast.hour > AlertThreshold => klast.alerted /\ klast.added = klast.hour

\* ==================================================== health monitor
\* get_proxy hands p out: hset(last_used = now_utc_iso())
MonUse(p) ==
    /\ p \in nactive
    /\ nrec[p].any
    /\ nrec[p].lastUsed = ""
    /\ nrec' = [nrec EXCEPT ![p].lastUsed = "z"]
    /\ UNCHANGED <<nactive, nburned, npc, ntodo, npass, npasses>>
    /\ UNCHANGED notMonVars

\* report_usage on p: the pipeline, then the burn guard and _burn_proxy
MonReport(p, s) ==
    /\ nrec[p].any
    /\ nrec[p].requests < MaxMonReports
    /\ LET r == ApplyUsage(nrec[p], s) IN
         IF BurnGuard(r.failures, r.requests)
         THEN /\ nrec' = [nrec EXCEPT ![p] = [r EXCEPT !.ttl = TRUE]]
              /\ nactive' = nactive \ {p}
              /\ nburned' = nburned \cup {p}
         ELSE /\ nrec' = [nrec EXCEPT ![p] = r]
              /\ UNCHANGED <<nactive, nburned>>
    /\ UNCHANGED <<npc, ntodo, npass, npasses>>
    /\ UNCHANGED notMonVars

\* sleep(300) is over: smembers(active), both counts 0
MonWake ==
    /\ npc = "sleep"
    /\ npasses < MaxPasses
    /\ npc' = "scan"
    /\ ntodo' = nactive
    /\ npass' = [NoPass EXCEPT !.how = "running"]
    /\ UNCHANGED <<nrec, nactive, nburned, npasses>>
    /\ UNCHANGED notMonVars

\* what the pass is to find for a stored record r of p: healthy from 50 on,
\* to be burnt under 20
Expecting(pass, p, r) ==
    [pass EXCEPT !.expHealthy = IF HealthScore(r) >= HealthyScore THEN @ + 1 ELSE @,
                 !.expBurnt = IF HealthScore(r) < CriticalScore THEN @ \cup {p} ELSE @]

\* one turn of `for pid in active_proxies`: hgetall, from_dict, the two
\* comparisons of health_score and _burn_proxy; an exception ends the pass in
\* the except clause of the loop
MonVisit(p) ==
    /\ npc = "scan"
    /\ p \in ntodo
    /\ IF ~nrec[p].any
       THEN \* if not proxy_data: continue
            /\ ntodo' = ntodo \ {p}
            /\ UNCHANGED <<nrec, nactive, nburned, npc, npass, npasses>>
       ELSE LET r == nrec[p]
                exp == Expecting(npass, p, r)
            IN
            IF FromDictRaises(r) \/ HealthRaises(r)
            THEN /\ npass' = [exp EXCEPT !.how = "raised"]
                 /\ ntodo' = {}
                 /\ npc' = "sleep"
                 /\ npasses' = npasses + 1
                 /\ UNCHANGED <<nrec, nactive, nburned>>
            ELSE IF HealthScore(r) < HealthyScore
            THEN /\ ntodo' = ntodo \ {p}
                 /\ IF HealthScore(r) < CriticalScore
                    THEN /\ nactive' = nactive \ {p}
                         /\ nburned' = nburned \cup {p}
                         /\ nrec' = [nrec EXCEPT ![p].ttl = TRUE]
                         /\ npass' = [exp EXCEPT !.unhealthy = @ + 1,
                                                 !.burnt = @ \cup {p}]
                    ELSE /\ npass' = [exp EXCEPT !.unhealthy = @ + 1]
                         /\ UNCHANGED <<nrec, nactive, nburned>>
                 /\ UNCHANGED <<npc, npasses>>
            ELSE /\ ntodo' = ntodo \ {p}
                 /\ npass' = [exp EXCEPT !.healthy = @ + 1]
                 /\ UNCHANGED <<nrec, nactive, nburned, npc, npasses>>
    /\ UNCHANGED notMonVars

\* after the loop: _provision_proxies(20 - healthy_count) when fewer than 10
\* are healthy (the providers have the proxies of MonPids to give, each saved
\* and added to the active set), then the metrics hash
MonFinish ==
    /\ npc = "scan"
    /\ ntodo = {}
    /\ IF npass.healthy < HealthyFloor
       THEN LET fresh == {p \in MonPids : ~nrec[p].any} IN
            /\ npass' = [npass EXCEPT !.how = "completed",
                                      !.asked = ProvisionTarget - npass.healthy]
            /\ nrec' = [p \in MonPids |-> IF p \in fresh THEN SaveProxy(nrec[p]) ELSE nrec[p]]
            /\ nactive' = nactive \cup fresh
       ELSE /\ npass' = [npass EXCEPT !.how = "completed"]
            /\ UNCHANGED <<nrec, nactive>>
    /\ npc' = "sleep"
    /\ npasses' = npasses + 1
    /\ UNCHANGED <<nburned, ntodo>>
    /\ UNCHANGED notMonVars

\* _provision_proxies has saved some proxies and added them to the active set
InitMonitor ==
    /\ WinQuiet
    /\ LatQuiet
    /\ RateQuiet
    /\ TbQuiet
    /\ GsQuiet
    /\ ChainQuiet
    /\ SelQuiet
    /\ LoopQuiet
    /\ ClientQuiet
    /\ EwmaQuiet
    /\ RotQuiet
    /\ CostQuiet
    /\ CacheQuiet
    /\ ProxyQuiet
    /\ HealthQuiet
    /\ \E some \in SUBSET MonPids :
         /\ nrec = [p \in MonPids |-> IF p \in some THEN SaveProxy(NoRec) ELSE NoRec]
         /\ nactive = some
    /\ nburned = {}
    /\ npc = "sleep"
    /\ ntodo = {}
    /\ npass = NoPass
    /\ npasses = 0

NextMonitor ==
    \/ \E p \in MonPids : MonUse(p)
    \/ \E p \in MonPids : \E s \in BOOLEAN : MonReport(p, s)
    \/ MonWake
    \/ \E p \in MonPids : MonVisit(p)
    \/ MonFinish

SpecMonitor == InitMonitor /\ [][NextMonitor]_vars

\* C31: a pass of the health monitor that is over has completed; it has
\* burnt exactly the proxies whose health_score was under 20 when it read
\* them, counted as healthy exactly those whose score was 50 or more, and
\* asked for 20 - healthy proxies if and only if fewer than 10 were healthy.
PassClassifies ==
    npass.how \in {"completed", "raised"} =>
        /\ npass.how = "completed"
        /\ npass.burnt = npass.expBurnt
        /\ npass.healthy = npass.expHealthy
        /\ (npass.asked > 0) = (npass.healthy < HealthyFloor)
        /\ npass.asked > 0 => npass.asked = ProvisionTarget - npass.healthy

\* a pass that completes does classify as said
CompletedPassClassifies ==
    npass.how = "completed" =>
        /\ npass.burnt = npass.expBurnt
        /\ npass.healthy = npass.expHealthy
        /\ (npass.asked > 0) = (npass.healthy < HealthyFloor)

\* ==================================================== latency and health score
\* report_usage(proxy, success, response_time): the counters, last_used and
\* response_time_ewma_ms; the field response_times is not written
LatReport(p, s, ms) ==
    /\ lhash[p].requests < MaxLatReports
    /\ lhash' = [lhash EXCEPT ![p] =
                   [@ EXCEPT !.requests = @ + 1,
                             !.success = IF s THEN @ + 1 ELSE @,
                             !.ewma = <<Ewma(IF @ = <<>> THEN ms ELSE @[1], ms)>>,
                             !.lastUsed = "z"]]
    /\ UNCHANGED lscore
    /\ UNCHANGED notLatVars

RECURSIVE SumOf(_)
SumOf(seq) == IF seq = <<>> THEN 0 ELSE Head(seq) + SumOf(Tail(seq))

\* Proxy.avg_response_time: 0 without samples, else the mean of response_times
AvgResponseTime(times) == IF times = <<>> THEN 0 ELSE SumOf(times) \div Len(times)

\* the Proxy that from_dict makes of a hash, as health_score looks at it
AsObject(h) ==
    [requests |-> h.requests, success |-> h.success, avg |-> AvgResponseTime(h.times),
     last |-> IF h.lastUsed = "" THEN "none" ELSE "aware", minutes |-> 0]

\* the scoring loop of get_proxy on p: hgetall, from_dict (cls(**data) raises
\* on the field response_time_ewma_ms) and health_score
LatScore(p) ==
    /\ lscore' = [lscore EXCEPT ![p] =
                    IF lhash[p].ewma # <<>> \/ HealthScoreRaises(AsObject(lhash[p]))
                    THEN [state |-> "raised", time |-> 0, of |-> lhash[p]]
                    ELSE [state |-> "scored", time |-> TimeScore(AsObject(lhash[p]).avg),
                          of |-> lhash[p]]]
    /\ lscore[p] # lscore'[p]
    /\ UNCHANGED lhash
    /\ UNCHANGED notLatVars

InitLatency ==
    /\ WinQuiet
    /\ RateQuiet
    /\ TbQuiet
    /\ GsQuiet
    /\ ChainQuiet
    /\ SelQuiet
    /\ LoopQuiet
    /\ ClientQuiet
    /\ EwmaQuiet
    /\ RotQuiet
    /\ CostQuiet
    /\ MonQuiet
    /\ CacheQuiet
    /\ ProxyQuiet
    /\ HealthQuiet
    /\ lhash = [p \in LatPids |-> NewHash]
    /\ lscore = [p \in LatPids |-> NotScored]

NextLatency ==
    \/ \E p \in LatPids : \E s \in BOOLEAN : \E ms \in Latencies : LatReport(p, s, ms)
    \/ \E p \in LatPids : LatScore(p)

SpecLatency == InitLatency /\ [][NextLatency]_vars

\* the steps of the response-time component and where it reaches 0
TimeStep == 50
TimeCutOff == 1500

\* C32: of two proxies that get_proxy has scored with the same counters and
\* last_used and with reported response times, the one with the higher
\* reported response time was given a score, and with a response-time
\* component no higher than the other's: lower when the response times are
\* 50 ms or more apart under 1500 ms.
ScoreFollowsLatency ==
    \A p, q \in LatPids :
        LET a == lscore[p].of
            b == lscore[q].of
        IN  ( /\ lscore[p].state # "none" /\ lscore[q].state # "none"
              /\ a.requests = b.requests /\ a.success = b.success
              /\ a.lastUsed = b.lastUsed
              /\ a.ewma # <<>> /\ b.ewma # <<>>
              /\ a.ewma[1] > b.ewma[1] )
            => /\ lscore[p].state = "scored" /\ lscore[q].state = "scored"
               /\ lscore[p].time <= lscore[q].time
               /\ (a.ewma[1] - b.ewma[1] >= TimeStep /\ a.ewma[1] <= TimeCutOff)
                     => lscore[p].time < lscore[q].time

\* C33: no entry of the response cache holds a 429 rejection of the limiter
\* (shed or out of tokens), whether a client request or a background refresh
\* filled it, and no response served from the cache is such a rejection.
RejectionsNotCached ==
    /\ \A k \in ChainKeys : mcache[k].body # "limited"
    /\ \A r \in ChainRequests : mresp[r].src = "cache" => mresp[r].body # "limited"

\* request r takes the check of its current tier in this step
ChecksTier(r) == rq[r].pc = "check" /\ rq'[r] # rq[r]

\* C34: the check of a tier that lets a request pass leaves the tier's
\* bucket with its refilled tokens less cost; the check that rejects it at
\* tier T leaves T's bucket with its refilled tokens, undebited, finds the
\* request with debits on exactly the tiers before T and touches no other
\* bucket, so that nothing is given back to the earlier tiers and nothing is
\* taken from the later ones; and no step at all raises a bucket above what
\* its refill yields.
DebitsNotRefunded ==
    [][/\ \A r \in Requests :
            ChecksTier(r) =>
              LET level == Levels[rq[r].lvl]
                  k == KeyOf(level, rq[r].route, UserSeen(r), rq[r].ip)
                  tk == Refill(bucket[k], rcfg.cap[level], RateOf(level), rq[r].nowms)
              IN  /\ \A j \in BucketKeys \ {k} : bucket'[j] = bucket[j]
                  /\ IF rq'[r].resp = "rate_limited_" \o level
                     THEN /\ bucket'[k].tokens = tk
                          /\ rq'[r].debited = TiersBefore(rq[r].lvl)
                          /\ rq[r].debited = TiersBefore(rq[r].lvl)
                     ELSE /\ bucket'[k].tokens = tk - Cost
                          /\ rq'[r].debited = rq[r].debited \cup {level}
       /\ \A k \in BucketKeys :
            bucket'[k].tokens <= Max(bucket[k].tokens,
                                     Refill(bucket[k], rcfg.cap[LevelOfKey(k)],
                                            RateOf(LevelOfKey(k)), now))]_vars

\* a request was rejected at the route tier after its debit of the global
\* bucket, which holds that token less; the ip bucket of the request is full
DebitsNotRefundedWitness ==
    \E r \in Requests :
        /\ rq[r].resp = "rate_limited_route"
        /\ rq[r].debited = {"global"}
        /\ bucket[<<"g", 0>>].tokens < rcfg.cap["global"]
        /\ bucket[<<"i", rq[r].ip>>].tokens = rcfg.cap["ip"]

\* C35: the lock of get_or_set is deleted only by the caller that owns it at
\* the moment of the delete: a delete that finds the lock held removes the
\* deleting caller's own lock, never the lock another caller has acquired
\* since the ownership check.
OwnerDeletesLock ==
    [][\A g \in Callers :
          (gs[g].pc = "rel_del" /\ gs'[g].pc = "done" /\ LockHeld)
              => glock.owner = g]_vars

\* C36: the body and the metadata (status, content type) served on a cache hit
\* come from one population of the entry: with a client that returns the
\* stored metadata, every response answered from the store is one the handler
\* gave, whatever repopulation happens between the lookup's two reads.
HitFromOnePopulation ==
    [][\A q \in CacheClients :
          (~cdecode /\ cq[q].pc = "meta" /\ cq'[q].pc = "idle")
              => cq'[q].resp \in Responses]_vars

\* increments of the counter of p made by get_proxy calls that are still
\* running: the call is about to undo its increment or about to return p
HeldByCalls(p) ==
    Cardinality({c \in Clients : cl[c].pc \in {"gp_decr", "gp_touch"} /\ cl[c].pick = p})

\* C37: a get_proxy call that returns absent leaves every in-flight counter as
\* it was before the call: each counter is the acquisitions still to be
\* reported plus the increments of calls still running, so a call that is over
\* without handing out a proxy has left nothing in any counter; the return
\* after an at-capacity pick takes the call's own increment back, and a return
\* before any pick touches no counter.
AbsentLeavesCounters ==
    /\ [](\A p \in Pids : inflight[p] = out[p] + Reporting(p) + HeldByCalls(p))
    /\ [][\A c \in Clients :
            /\ (cl[c].pc = "gp_decr" /\ cl'[c].pc = "idle")
                  => /\ inflight' = [inflight EXCEPT ![cl[c].pick] = @ - 1]
                     /\ out' = out
            /\ (cl[c].pc \in {"gp_smembers2", "gp_scan"} /\ cl'[c].pc = "idle")
                  => /\ inflight' = inflight
                     /\ out' = out]_vars

\* C37: a call has picked a proxy that is at capacity, its increment has put
\* the counter above max_inflight, no other candidate is left and another call
\* is running at the same time
AbsentLeavesCountersWitness ==
    \E c, d \in Clients :
        /\ c # d
        /\ cl[c].pc = "gp_decr"
        /\ cl[c].cands = {cl[c].pick}
        /\ inflight[cl[c].pick] = MaxInflight + 1
        /\ out[cl[c].pick] = MaxInflight
        /\ cl[d].pc # "idle"

\* ============================== RateLimiter and RateLimitMiddleware.dispatch
\* the members of the sorted set: the key is gone once its expire has run out
WinMembers == IF wnow < wexp THEN wset ELSE {}

\* zremrangebyscore(key, 0, window_start): what is left of the members
InWindow(S, t) == {s \in S : s > t - WindowSeconds}

\* is_limited = current_requests >= max_requests
IsLimited(n) == n >= MaxRequests

\* an except branch that turns the request away
OnErrorBlocked(q, where) == [q EXCEPT !.pc = "done", !.err = where, !.resp = "500"]

\* except Exception: print and pass; dispatch goes on to call_next
OnError(q, where) == [q EXCEPT !.pc = "next", !.err = where]

\* dispatch: a path or method that is not limited goes straight to call_next;
\* otherwise check_rate_limit starts with current_time = time.time()
WdStart(r) ==
    /\ wq[r].pc = "new"
    /\ \E skip \in BOOLEAN :
         wq' = [wq EXCEPT ![r] = IF skip THEN [@ EXCEPT !.pc = "next"]
                                 ELSE [@ EXCEPT !.pc = "exec", !.t = wnow]]
    /\ UNCHANGED <<wset, wexp, wnow>>
    /\ UNCHANGED notWinVars

\* pipe.execute(): zremrangebyscore, zcard, zadd of str(current_time) and
\* expire run as one transaction; the call can fail before the store has
\* taken it ("refused") or after ("lost"), and then check_rate_limit raises
WdExec(r) ==
    /\ wq[r].pc = "exec"
    /\ LET t == wq[r].t
           kept == InWindow(WinMembers, t)
           n == Cardinality(kept)
       IN \E o \in {"ok", "refused", "lost"} :
            /\ IF o = "refused"
               THEN UNCHANGED <<wset, wexp>>
               ELSE /\ wset' = kept \cup {t}
                    /\ wexp' = wnow + WindowSeconds + 1
            /\ wq' = [wq EXCEPT ![r] =
                        IF o = "ok"
                        THEN [@ EXCEPT !.pc = IF IsLimited(n) THEN "zrange" ELSE "next",
                                       !.at = wnow, !.seen = n, !.recorded = TRUE,
                                       !.verdict = IF IsLimited(n) THEN "limited"
                                                   ELSE "allowed",
                                       !.info = ~IsLimited(n)]
                        ELSE OnError([@ EXCEPT !.recorded = (o = "lost"), !.at = wnow],
                                     "check")]
    /\ UNCHANGED wnow
    /\ UNCHANGED notWinVars

\* is_limited: zrange(key, 0, 0, withscores=True) and retry_after
WdZrange(r) ==
    /\ wq[r].pc = "zrange"
    /\ \E ok \in BOOLEAN :
         wq' = [wq EXCEPT ![r] =
                  IF ~ok THEN OnError(@, "check")
                  ELSE [@ EXCEPT !.pc = "log",
                                 !.retry = IF WinMembers = {} THEN WindowSeconds
                                           ELSE SetMin(WinMembers) + WindowSeconds
                                                  - wq[r].t + 1]]
    /\ UNCHANGED <<wset, wexp, wnow>>
    /\ UNCHANGED notWinVars

\* log_violation: setex of the violation record, then the 429 response with
\* Retry-After and the X-RateLimit headers
WdLog(r) ==
    /\ wq[r].pc = "log"
    /\ \E ok \in BOOLEAN :
         wq' = [wq EXCEPT ![r] =
                  IF ~ok THEN OnError(@, "log")
                  ELSE [@ EXCEPT !.pc = "done", !.resp = "429", !.headers = TRUE]]
    /\ UNCHANGED <<wset, wexp, wnow>>
    /\ UNCHANGED notWinVars

\* response = await call_next(request); the X-RateLimit headers are added
\* when request.state has rate_limit_info
WdNext(r) ==
    /\ wq[r].pc = "next"
    /\ wq' = [wq EXCEPT ![r] = [@ EXCEPT !.pc = "done", !.calls = @ + 1,
                                         !.resp = "handler", !.headers = wq[r].info]]
    /\ UNCHANGED <<wset, wexp, wnow>>
    /\ UNCHANGED notWinVars

\* a second passes
WinTick ==
    /\ wnow < MaxWinTime
    /\ wnow' = wnow + 1
    /\ UNCHANGED <<wset, wexp, wq>>
    /\ UNCHANGED notWinVars

InitWindow ==
    /\ RateQuiet
    /\ TbQuiet
    /\ GsQuiet
    /\ ChainQuiet
    /\ SelQuiet
    /\ LoopQuiet
    /\ ClientQuiet
    /\ EwmaQuiet
    /\ RotQuiet
    /\ CostQuiet
    /\ MonQuiet
    /\ LatQuiet
    /\ CacheQuiet
    /\ ProxyQuiet
    /\ HealthQuiet
    /\ wset = {}
    /\ wexp = 0
    /\ wnow = 0
    /\ wq = [r \in WinRequests |-> NewWinRequest]

NextWindow ==
    \/ \E r \in WinRequests : WdStart(r)
    \/ \E r \in WinRequests : WdExec(r)
    \/ \E r \in WinRequests : WdZrange(r)
    \/ \E r \in WinRequests : WdLog(r)
    \/ \E r \in WinRequests : WdNext(r)
    \/ WinTick

SpecWindow == InitWindow /\ [][NextWindow]_vars

\* the requests check_rate_limit reported as not limited in the
\* window_seconds that begin at time a
AllowedFrom(a) ==
    {r \in WinRequests : wq[r].verdict = "allowed"
                            /\ a <= wq[r].at /\ wq[r].at < a + WindowSeconds}

\* the requests, other than r, that the store recorded in the window_seconds
\* up to the time t of r
RecordedBefore(r, t) ==
    {q \in WinRequests \ {r} : wq[q].recorded /\ wq[q].t > t - WindowSeconds
                                  /\ wq[q].t <= t}

\* request r gets its answer from the pipeline in this step
Judged(r) == wq[r].pc = "exec" /\ wq'[r].verdict # "none"

\* C38: for the key of one (identifier, route, window), check_rate_limit
\* reports at most max_requests requests as not limited within any interval of
\* window_seconds, under any interleaving of concurrent calls; and a request
\* is reported limited exactly when max_requests or more requests, allowed or
\* rejected, were recorded in the window before it.
SlidingWindowBound ==
    /\ [](\A a \in 0..MaxWinTime : Cardinality(AllowedFrom(a)) <= MaxRequests)
    /\ [][\A r \in WinRequests :
            Judged(r) => ((wq'[r].verdict = "limited")
                            <=> Cardinality(RecordedBefore(r, wq[r].t)) >= MaxRequests)]_vars

\* every call so far ran its pipeline at the time it read the clock, and no
\* two calls read the same time
CallsApart ==
    /\ \A r \in WinRequests : wq[r].pc = "exec" => wq[r].t = wnow
    /\ \A r \in WinRequests : wq[r].recorded => wq[r].at = wq[r].t
    /\ \A r, q \in WinRequests :
          (r # q /\ wq[r].pc # "new" /\ wq[q].pc # "new"
             /\ (wq[r].pc = "exec" \/ wq[r].recorded \/ wq[r].err = "check")
             /\ (wq[q].pc = "exec" \/ wq[q].recorded \/ wq[q].err = "check"))
              => wq[r].t # wq[q].t

\* the bound of the sliding window for calls that read distinct times and run
\* their pipelines without delay
SlidingWindowBoundApart ==
    /\ [](CallsApart => \A a \in 0..MaxWinTime : Cardinality(AllowedFrom(a)) <= MaxRequests)
    /\ [][\A r \in WinRequests :
            (CallsApart /\ Judged(r))
               => ((wq'[r].verdict = "limited")
                     <=> Cardinality(RecordedBefore(r, wq[r].t)) >= MaxRequests)]_vars

\* C39: RateLimitMiddleware fails open: when check_rate_limit raises, the
\* request is not blocked; it goes on to the downstream handler, which is
\* called exactly once, and the handler's response is returned without
\* rate-limit headers.
FailsOpen ==
    \A r \in WinRequests :
        wq[r].err = "check" =>
            /\ wq[r].pc \in {"next", "done"}
            /\ wq[r].pc = "next" => wq[r].calls = 0
            /\ wq[r].pc = "done" =>
                  /\ wq[r].calls = 1
                  /\ wq[r].resp = "handler"
                  /\ ~wq[r].headers

\* C39: a request was allowed and answered with rate-limit headers; another
\* was found over the limit, the store then failed the zrange of its
\* check_rate_limit call, and the handler has answered it
FailsOpenWitness ==
    \E r, q \in WinRequests :
        /\ r # q
        /\ wq[r].pc = "done" /\ wq[r].err = "check" /\ wq[r].verdict = "limited"
        /\ wq[r].calls = 1 /\ wq[r].resp = "handler"
        /\ wq[q].pc = "done" /\ wq[q].verdict = "allowed" /\ wq[q].headers

====
